---- MODULE Spec2Model ----
(***************************************************************************)
(* Model of the featured-image generator: the template catalog             *)
(* (server/templates.js), the rendering pipeline (generateImage.js) and    *)
(* the HTTP handler that drives it (server/index.js).                      *)
(*                                                                         *)
(* Conventions                                                             *)
(*   - a JavaScript value that may be undefined is a sequence: <<>> is     *)
(*     undefined, <<v>> is the value v;                                    *)
(*   - a text is the sequence of the lengths of the pieces text.split(" ") *)
(*     yields, so 0 is the empty piece two adjacent spaces produce and     *)
(*     <<0>> is the empty string;                                          *)
(*   - measured widths are in half pixels: one character of a font of      *)
(*     size s advances s/2 pixels;                                         *)
(*   - a line height is the fraction num/den.                              *)
(***************************************************************************)
EXTENDS Integers, Sequences, FiniteSets, TLC

\* ------------------------------------------------------------------ bounds
\* Longest title, in space-separated pieces.
MaxWords == 5

\* The piece lengths titles are built from: an empty piece, a short word, a
\* word that fills most of a line at nominal size, and a word wider than most
\* wrap widths at every size.
WordLens == {0, 3, 20, 60}

\* --------------------------------------------------------- JS value helpers
None == <<>>

Some(v) == <<v>>

IsDefined(o) == o # <<>>

\* o ?? d and, for the numbers and strings used here, o || d when o is not 0/"".
OrElse(o, d) == IF o # <<>> THEN o[1] ELSE d

Max(a, b) == IF a >= b THEN a ELSE b

\* ------------------------------------------------------------------ colors
\* A color string is the sequence of its characters.
HexChars == <<"0", "1", "2", "3", "4", "5", "6", "7", "8", "9", "a", "b", "c", "d", "e", "f">>

UpperHexChars ==
    <<"0", "1", "2", "3", "4", "5", "6", "7", "8", "9", "A", "B", "C", "D", "E", "F">>

\* The character class [a-f\d] under the i flag.
IsHexDigit(ch) == \E i \in 1..16 : ch = HexChars[i] \/ ch = UpperHexChars[i]

\* parseInt(pair, 16) of two hex digits.
HexValue(ch) == (CHOOSE i \in 1..16 : ch = HexChars[i] \/ ch = UpperHexChars[i]) - 1

parseInt16(pair) == 16 * HexValue(pair[1]) + HexValue(pair[2])

Rgb(r, g, b) == [r |-> r, g |-> g, b |-> b]

hexToRgbCaseSensitive(hex) ==
    LET digits == IF hex # <<>> /\ hex[1] = "#" THEN Tail(hex) ELSE hex
    IN IF Len(digits) = 6 /\ \A i \in 1..6 : \E k \in 1..16 : digits[i] = HexChars[k]
       THEN Rgb(parseInt16(SubSeq(digits, 1, 2)), parseInt16(SubSeq(digits, 3, 4)),
                parseInt16(SubSeq(digits, 5, 6)))
       ELSE Rgb(255, 255, 255)

\* /^#?([a-f\d]{2})([a-f\d]{2})([a-f\d]{2})$/i and the three parseInt calls.
hexToRgb(hex) ==
    LET digits == IF hex # <<>> /\ hex[1] = "#" THEN Tail(hex) ELSE hex
    IN IF Len(digits) = 6 /\ \A i \in 1..6 : IsHexDigit(digits[i])
       THEN Rgb(parseInt16(SubSeq(digits, 1, 2)), parseInt16(SubSeq(digits, 3, 4)),
                parseInt16(SubSeq(digits, 5, 6)))
       ELSE Rgb(255, 255, 255)

\* "#ffffff", the default color of every banner of the catalog.
WhiteHex == <<"#", "f", "f", "f", "f", "f", "f">>

\* ---------------------------------------------------------- JSON and numbers
\* A JavaScript number: opacities are kept in percent; NaN is its own kind.
Number(pct) == [kind |-> "number", pct |-> pct]

NaN == [kind |-> "NaN", pct |-> 0]

\* The values a JSON body can carry in bannerOpacity: a number, a string that
\* spells a number, and null.
JsonNumber(pct) == [kind |-> "number", pct |-> pct]

JsonString(pct) == [kind |-> "string", pct |-> pct]

JsonNull == [kind |-> "null", pct |-> 0]

\* parseFloat(value): null is converted to the string "null", which is no number.
parseFloat(value) == IF value.kind = "null" THEN NaN ELSE Number(value.pct)

\* ------------------------------------------------------- template catalog
Font(weight, px, family) == [weight |-> weight, px |-> px, family |-> family, italic |-> FALSE]

TitleConfig(font, color, lh, x, y, offsetY, align, maxWidth, style) ==
    [font |-> font, defaultColor |-> color, lineHeight |-> lh, x |-> x, y |-> y,
     offsetY |-> offsetY, align |-> align, maxWidth |-> maxWidth, style |-> style]

CategoryConfig(font, color, x, y, offsetY, align, badge) ==
    [font |-> font, defaultColor |-> color, textTransform |-> "uppercase",
     x |-> x, y |-> y, offsetY |-> offsetY, align |-> align, badge |-> badge]

CenteredBanner(height, padding, color, opacity100) ==
    [type |-> "centered", height |-> height, padding |-> padding,
     x |-> 0, y |-> 0, width |-> 0,
     defaultColor |-> color, defaultOpacity |-> opacity100]

BoxBanner(type, x, y, width, height, color, opacity100) ==
    [type |-> type, height |-> height, padding |-> 0,
     x |-> x, y |-> y, width |-> width,
     defaultColor |-> color, defaultOpacity |-> opacity100]

\* The preview of a template: the two colors of its gradient and its accent.
Preview(from, to, accentColor) == [bgGradient |-> <<from, to>>, accentColor |-> accentColor]

Canvas1200x630 == [width |-> 1200, height |-> 630]

classic ==
    [id |-> "classic", name |-> "Classic",
     description |-> "Clean centered banner with elegant serif typography",
     preview |-> Preview("#e8e4df", "#d4cfc9", "#c67c4e"),
     config |-> Some(
       [canvas |-> Canvas1200x630,
        background |-> [type |-> "gradient", angle |-> 45, stops |-> 2],
        decorations |-> 0,
        banner |-> Some(CenteredBanner(340, 100, WhiteHex, Some(85))),
        category |-> CategoryConfig(Font("500", Some(24), "Arial"), "#c67c4e",
                                    None, None, Some(70), None, FALSE),
        title |-> TitleConfig(Font("400", Some(64), "Georgia"), "#1a1a1a", Some(80),
                              None, None, Some(80), None, Some(-160), None),
        subtitle |-> FALSE])]

modernDark ==
    [id |-> "modernDark", name |-> "Modern Dark",
     description |-> "Bold dark theme with vibrant gradient accents",
     preview |-> Preview("#1a1a2e", "#16213e", "#e94560"),
     config |-> Some(
       [canvas |-> Canvas1200x630,
        background |-> [type |-> "gradient", angle |-> 135, stops |-> 3],
        decorations |-> 2,
        banner |-> Some(BoxBanner("left", 80, 120, 700, 390, WhiteHex, Some(5))),
        category |-> CategoryConfig(Font("700", Some(18), "Arial"), "#e94560",
                                    Some(120), Some(180), None, Some("left"), FALSE),
        title |-> TitleConfig(Font("700", Some(52), "Arial"), "#ffffff", Some(68),
                              Some(120), Some(260), None, Some("left"), Some(620), None),
        subtitle |-> FALSE])]

minimal ==
    [id |-> "minimal", name |-> "Minimal",
     description |-> "Ultra clean design with subtle bottom accent",
     preview |-> Preview("#fafafa", "#f0f0f0", "#2563eb"),
     config |-> Some(
       [canvas |-> Canvas1200x630,
        background |-> [type |-> "solid", angle |-> 0, stops |-> 0],
        decorations |-> 2,
        banner |-> None,
        category |-> CategoryConfig(Font("500", Some(16), "Arial"), "#2563eb",
                                    Some(100), Some(240), None, Some("left"), FALSE),
        title |-> TitleConfig(Font("300", Some(58), "Georgia"), "#1f2937", Some(75),
                              Some(100), Some(320), None, Some("left"), Some(900), None),
        subtitle |-> FALSE])]

vibrant ==
    [id |-> "vibrant", name |-> "Vibrant",
     description |-> "Colorful gradient background with floating card",
     preview |-> Preview("#667eea", "#764ba2", "#fbbf24"),
     config |-> Some(
       [canvas |-> Canvas1200x630,
        background |-> [type |-> "gradient", angle |-> 135, stops |-> 3],
        decorations |-> 3,
        banner |-> Some(BoxBanner("floating", 100, 115, 1000, 400, WhiteHex, Some(95))),
        category |-> CategoryConfig(Font("700", Some(16), "Arial"), "#7c3aed",
                                    None, Some(200), None, Some("center"), TRUE),
        title |-> TitleConfig(Font("700", Some(54), "Arial"), "#1f2937", Some(70),
                              None, Some(290), None, Some("center"), Some(800), None),
        subtitle |-> FALSE])]

editorial ==
    [id |-> "editorial", name |-> "Editorial",
     description |-> "Magazine-style layout with bold typography",
     preview |-> Preview("#fef3e2", "#fde8d0", "#ea580c"),
     config |-> Some(
       [canvas |-> Canvas1200x630,
        background |-> [type |-> "gradient", angle |-> 180, stops |-> 2],
        decorations |-> 2,
        banner |-> None,
        category |-> CategoryConfig(Font("400", Some(14), "Georgia"), "#ea580c",
                                    Some(80), Some(120), None, Some("left"), FALSE),
        title |-> TitleConfig(Font("400", Some(72), "Georgia"), "#292524", Some(85),
                              Some(80), Some(200), None, Some("left"), Some(1000),
                              Some("italic")),
        subtitle |-> TRUE])]

prayerCover ==
    [id |-> "prayerCover", name |-> "Prayer Cover",
     description |-> "Spiritual themed cover with soft pink-cyan gradient background",
     preview |-> Preview("#7dd3fc", "#f9a8d4", "#be185d"),
     config |-> Some(
       [canvas |-> Canvas1200x630,
        background |-> [type |-> "image", angle |-> 0, stops |-> 0],
        decorations |-> 0,
        banner |-> Some(CenteredBanner(340, 100, WhiteHex, Some(90))),
        category |-> CategoryConfig(Font("500", Some(24), "Arial"), "#be185d",
                                    None, None, Some(70), None, FALSE),
        title |-> TitleConfig(Font("400", Some(64), "Georgia"), "#1e293b", Some(80),
                              None, None, Some(80), None, Some(-160), None),
        subtitle |-> FALSE])]

\* The own keys of the catalog object, in insertion order.
TemplateOrder == <<"classic", "modernDark", "minimal", "vibrant", "editorial", "prayerCover">>

TemplateIds == {TemplateOrder[i] : i \in 1..Len(TemplateOrder)}

templates ==
    [id \in TemplateIds |->
        CASE id = "classic" -> classic
          [] id = "modernDark" -> modernDark
          [] id = "minimal" -> minimal
          [] id = "vibrant" -> vibrant
          [] id = "editorial" -> editorial
          [] id = "prayerCover" -> prayerCover]

\* ------------------------------------------------------------ text metrics
\* The length in characters of a line: its pieces joined by single spaces.
RECURSIVE SumLens(_)
SumLens(line) == IF line = <<>> THEN 0 ELSE Head(line) + SumLens(Tail(line))

TextLen(line) == IF line = <<>> THEN 0 ELSE SumLens(line) + Len(line) - 1

\* A piece as a string: the empty piece is the empty string.
Str(word) == IF word = 0 THEN <<>> ELSE <<word>>

\* JavaScript truthiness of a string.
Truthy(line) == TextLen(line) > 0

\* The size the canvas measures with after ctx.font = font: a font string
\* that carries no "<n>px" leaves the context at its 10px default.
FontPx(font) == OrElse(font.px, 10)

\* ctx.measureText(line).width, in half pixels.
measureText(font, line) == TextLen(line) * FontPx(font)

OverflowsMeasuringCurrent(font, currentLine, testLine, maxWidth) ==
    measureText(font, currentLine) > 2 * maxWidth /\ Truthy(currentLine)

\* The test of wrapText on the line extended by the next word.
Overflows(font, currentLine, testLine, maxWidth) ==
    measureText(font, testLine) > 2 * maxWidth /\ Truthy(currentLine)

RECURSIVE WrapFrom(_, _, _, _, _)
WrapFrom(font, words, maxWidth, lines, currentLine) ==
    IF words = <<>>
    THEN IF Truthy(currentLine) THEN Append(lines, currentLine) ELSE lines
    ELSE LET word == Head(words)
             testLine == IF Truthy(currentLine) THEN Append(currentLine, word) ELSE Str(word)
         IN IF Overflows(font, currentLine, testLine, maxWidth)
            THEN WrapFrom(font, Tail(words), maxWidth, Append(lines, currentLine), Str(word))
            ELSE WrapFrom(font, Tail(words), maxWidth, lines, testLine)

wrapText(font, text, maxWidth) == WrapFrom(font, text, maxWidth, <<>>, <<>>)

\* ------------------------------------------------------------------ banner
\* The rectangle drawBanner fills: the arguments of fillRect, or of roundRect
\* before fill, which are the same four numbers.
BannerRect(canvas, bannerConfig) ==
    IF bannerConfig = None THEN None
    ELSE LET b == bannerConfig[1]
         IN IF b.type = "centered"
            THEN Some([x |-> b.padding,
                       y |-> (canvas.height - b.height) \div 2,
                       width |-> canvas.width - b.padding * 2,
                       height |-> b.height])
            ELSE IF b.type \in {"left", "floating"}
            THEN Some([x |-> b.x, y |-> b.y, width |-> b.width, height |-> b.height])
            ELSE None

drawBannerCanvasCentre(canvas, bannerConfig) ==
    IF bannerConfig = None THEN None
    ELSE LET b == bannerConfig[1]
         IN IF b.type = "centered"
            THEN Some([x |-> b.padding,
                       y |-> (canvas.height - b.height) \div 2,
                       width |-> canvas.width - b.padding * 2,
                       height |-> b.height,
                       centerX |-> canvas.width \div 2])
            ELSE IF b.type \in {"left", "floating"}
            THEN Some([x |-> b.x, y |-> b.y, width |-> b.width, height |-> b.height,
                       centerX |-> canvas.width \div 2])
            ELSE None

\* The bounds drawBanner returns; None when there is no banner. Lengths are
\* whole pixels; the inputs are even where the code halves them.
drawBanner(canvas, bannerConfig) ==
    IF bannerConfig = None THEN None
    ELSE LET b == bannerConfig[1]
         IN IF b.type = "centered"
            THEN Some([x |-> b.padding,
                       y |-> (canvas.height - b.height) \div 2,
                       width |-> canvas.width - b.padding * 2,
                       height |-> b.height,
                       centerX |-> canvas.width \div 2])
            ELSE IF b.type \in {"left", "floating"}
            THEN Some([x |-> b.x, y |-> b.y, width |-> b.width, height |-> b.height,
                       centerX |-> b.x + b.width \div 2])
            ELSE None

\* The fill drawBanner paints with: bannerColor || defaultColor || "#ffffff"
\* converted by hexToRgb, and bannerOpacity ?? defaultOpacity ?? 0.85.
BannerFill(bannerConfig, bannerColor, bannerOpacity) ==
    IF bannerConfig = None THEN None
    ELSE LET b == bannerConfig[1]
             fillColor == IF IsDefined(bannerColor) /\ bannerColor[1] # <<>> THEN bannerColor[1]
                          ELSE IF b.defaultColor # <<>> THEN b.defaultColor
                          ELSE WhiteHex
         IN Some([color |-> fillColor,
                  rgb |-> hexToRgb(fillColor),
                  opacity |-> OrElse(bannerOpacity, Number(OrElse(b.defaultOpacity, 85)))])

\* The fill style of the category and of the title: override || defaultColor.
TextFill(override, defaultColor) ==
    IF IsDefined(override) /\ override[1] # "" THEN override[1] ELSE defaultColor

\* ------------------------------------------------------------------- title
getFontSize(font) == OrElse(font.px, 72)

setFontSize(font, newSize) ==
    IF IsDefined(font.px) THEN [font EXCEPT !.px = Some(newSize)] ELSE font

\* The font drawTitle starts from: the italic style is a prefix of the string.
TitleFont(titleConfig) ==
    IF titleConfig.style = Some("italic") /\ titleConfig.font.weight # ""
    THEN [titleConfig.font EXCEPT !.italic = TRUE]
    ELSE titleConfig.font

TitleMaxWidth(canvas, titleConfig, bannerBounds) ==
    IF IsDefined(titleConfig.maxWidth)
    THEN IF titleConfig.maxWidth[1] < 0 /\ IsDefined(bannerBounds)
         THEN bannerBounds[1].width + titleConfig.maxWidth[1]
         ELSE titleConfig.maxWidth[1]
    ELSE canvas.width - 200

\* Math.max(originalFontSize * 0.5, 30); the modelled nominal sizes are even.
minFontSize(originalFontSize) == Max(originalFontSize \div 2, 30)

maxLines == 4

\* maxHeight in tenths of a pixel: 0.8 * banner height, else 0.5 * canvas height.
TitleMaxHeight10(canvas, bannerBounds) ==
    IF IsDefined(bannerBounds) THEN bannerBounds[1].height * 8 ELSE canvas.height * 5

NominalLineHeight(titleConfig) == OrElse(titleConfig.lineHeight, 80)

FitsLinesOnly(lines, lineHeight, maxHeight10) == Len(lines) <= maxLines

FitsHeightOnly(lines, lineHeight, maxHeight10) ==
    Len(lines) * lineHeight.num * 10 <= maxHeight10 * lineHeight.den

\* lines.length <= maxLines && lines.length * lineHeight <= maxHeight
Fits(lines, lineHeight, maxHeight10) ==
    /\ Len(lines) <= maxLines
    /\ Len(lines) * lineHeight.num * 10 <= maxHeight10 * lineHeight.den

ReducedSizeUnclamped(currentFontSize, min) == currentFontSize - 4

ReducedSizeStep2(currentFontSize, min) ==
    IF currentFontSize - 2 < min THEN min ELSE currentFontSize - 2

\* currentFontSize -= 4, then the clamp to minFontSize.
ReducedSize(currentFontSize, min) ==
    IF currentFontSize - 4 < min THEN min ELSE currentFontSize - 4

\* The local variables of drawTitle before its while loop.
FitStart(titleConfig) ==
    [currentFontSize |-> getFontSize(TitleFont(titleConfig)),
     currentFont |-> TitleFont(titleConfig),
     lines |-> <<>>,
     lineHeight |-> [num |-> NominalLineHeight(titleConfig), den |-> 1],
     tried |-> <<>>,
     exited |-> FALSE]

\* One execution of the body of the while loop; exited records a break.
FitStep(titleConfig, titleText, maxWidth, maxHeight10, s) ==
    LET font == TitleFont(titleConfig)
        originalFontSize == getFontSize(font)
        min == minFontSize(originalFontSize)
        wrapped == wrapText(s.currentFont, titleText, maxWidth)
        tried1 == Append(s.tried, FontPx(s.currentFont))
    IN IF Fits(wrapped, s.lineHeight, maxHeight10)
       THEN [s EXCEPT !.lines = wrapped, !.tried = tried1, !.exited = TRUE]
       ELSE LET size == ReducedSize(s.currentFontSize, min)
                newFont == setFontSize(font, size)
                lh == [num |-> NominalLineHeight(titleConfig) * size, den |-> originalFontSize]
            IN IF size = min
               THEN [currentFontSize |-> size, currentFont |-> newFont,
                     lines |-> wrapText(newFont, titleText, maxWidth),
                     lineHeight |-> lh,
                     tried |-> Append(tried1, FontPx(newFont)),
                     exited |-> TRUE]
               ELSE [currentFontSize |-> size, currentFont |-> newFont,
                     lines |-> wrapped, lineHeight |-> lh,
                     tried |-> tried1, exited |-> FALSE]

\* while (currentFontSize >= minFontSize)
LoopCondition(titleConfig, s) ==
    s.currentFontSize >= minFontSize(getFontSize(TitleFont(titleConfig)))

\* The x and y drawCategory resolves; y is what it returns (None: undefined).
CategoryX(canvas, categoryConfig, bannerBounds) ==
    IF IsDefined(categoryConfig.x) THEN categoryConfig.x
    ELSE IF OrElse(categoryConfig.align, "center") = "center" THEN Some(canvas.width \div 2)
    ELSE IF IsDefined(bannerBounds) THEN Some(bannerBounds[1].x + 40)
    ELSE None

CategoryY(categoryConfig, bannerBounds) ==
    IF IsDefined(categoryConfig.y) THEN categoryConfig.y
    ELSE IF IsDefined(bannerBounds) /\ OrElse(categoryConfig.offsetY, 0) # 0
    THEN Some(bannerBounds[1].y + categoryConfig.offsetY[1])
    ELSE None

\* The value drawCategory returns: nothing is drawn for an empty category text.
drawCategory(canvas, categoryConfig, categoryText, bannerBounds) ==
    IF ~Truthy(categoryText) THEN None ELSE CategoryY(categoryConfig, bannerBounds)

TitleX(canvas, titleConfig, bannerBounds) ==
    IF IsDefined(titleConfig.x) THEN titleConfig.x
    ELSE IF OrElse(titleConfig.align, "center") = "center" THEN Some(canvas.width \div 2)
    ELSE IF IsDefined(bannerBounds) THEN Some(bannerBounds[1].x + 40)
    ELSE None

TitleStartY(titleConfig, bannerBounds, categoryY) ==
    IF IsDefined(titleConfig.y) THEN titleConfig.y
    ELSE IF OrElse(categoryY, 0) # 0 /\ OrElse(titleConfig.offsetY, 0) # 0
    THEN Some(categoryY[1] + titleConfig.offsetY[1])
    ELSE IF IsDefined(bannerBounds)
    THEN Some(bannerBounds[1].y + bannerBounds[1].height \div 2)
    ELSE None

TitleFillTextsNominalSpacing(canvas, titleConfig, bannerBounds, categoryY, s) ==
    [i \in 1..Len(s.lines) |->
        [line |-> s.lines[i],
         font |-> s.currentFont,
         x |-> TitleX(canvas, titleConfig, bannerBounds),
         startY |-> TitleStartY(titleConfig, bannerBounds, categoryY),
         dy |-> [num |-> (i - 1) * NominalLineHeight(titleConfig), den |-> 1]]]

\* The fillText calls of drawTitle: line index i is drawn at
\* startY + i * lineHeight, kept as the fraction (startY * den + i * num) / den.
TitleFillTexts(canvas, titleConfig, bannerBounds, categoryY, s) ==
    [i \in 1..Len(s.lines) |->
        [line |-> s.lines[i],
         font |-> s.currentFont,
         x |-> TitleX(canvas, titleConfig, bannerBounds),
         startY |-> TitleStartY(titleConfig, bannerBounds, categoryY),
         dy |-> [num |-> (i - 1) * s.lineHeight.num, den |-> s.lineHeight.den]]]

\* ------------------------------------------------------------------- state
VARIABLES
    title,      \* one drawTitle invocation, stepped through its fit loop
    calls,      \* the POST /api/generate-image requests, by connection
    files,      \* the files of the generated directory
    now,        \* the wall clock Date.now() reads, in milliseconds
    color,      \* one hexToRgb invocation: its argument and its result
    layout,     \* the banner, category and title stages run on one config
    catalog,    \* the templates object of templates.js, as it is in memory
    listing,    \* the last answer of getTemplateList
    gradient,   \* one angleToCoords invocation: its arguments and its result
    sweeper,    \* config.cleanup and the interval timer of cleanupOldImages
    download    \* one fetchImageFromUrl call: its requests, its stream, its promise

vars == <<title, calls, files, now, color, layout, catalog, listing, gradient, sweeper, download>>

\* --------------------------------------------- drawTitle, one step at a time
Texts == UNION {[1..n -> WordLens] : n \in 1..MaxWords}

CategoryTexts == {<<0>>, <<8>>}

TitleCanvas == templates[title.templateId].config[1].canvas

TitleCfg == templates[title.templateId].config[1].title

TitleBounds == drawBanner(TitleCanvas, templates[title.templateId].config[1].banner)

TitleCategoryY ==
    drawCategory(TitleCanvas, templates[title.templateId].config[1].category,
                 title.categoryText, TitleBounds)

NoFit ==
    [currentFontSize |-> 0, currentFont |-> Font("", None, ""), lines |-> <<>>,
     lineHeight |-> [num |-> 0, den |-> 1], tried |-> <<>>, exited |-> FALSE]

IdleTitle ==
    [pc |-> "idle", templateId |-> "classic", text |-> <<0>>, categoryText |-> <<0>>,
     fit |-> NoFit, drawn |-> <<>>]

\* generateImage calls drawTitle with a template's title config and a title.
TitleCall ==
    /\ title.pc = "idle"
    /\ \E t \in TemplateIds, x \in Texts, k \in CategoryTexts :
          title' = [title EXCEPT !.pc = "enter", !.templateId = t, !.text = x,
                                 !.categoryText = k]
    /\ UNCHANGED <<calls, files, now, color, layout, catalog, listing, gradient, sweeper, download>>

\* drawTitle is entered: the early return on an empty title, else the locals.
TitleEnter ==
    /\ title.pc = "enter"
    /\ title' = IF ~Truthy(title.text)
                THEN [title EXCEPT !.pc = "returned"]
                ELSE [title EXCEPT !.pc = "loop", !.fit = FitStart(TitleCfg)]
    /\ UNCHANGED <<calls, files, now, color, layout, catalog, listing, gradient, sweeper, download>>

\* One iteration of the while loop.
TitleIterate ==
    /\ title.pc = "loop"
    /\ ~title.fit.exited
    /\ LoopCondition(TitleCfg, title.fit)
    /\ title' = [title EXCEPT !.fit =
                    FitStep(TitleCfg, title.text,
                            TitleMaxWidth(TitleCanvas, TitleCfg, TitleBounds),
                            TitleMaxHeight10(TitleCanvas, TitleBounds), title.fit)]
    /\ UNCHANGED <<calls, files, now, color, layout, catalog, listing, gradient, sweeper, download>>

\* The loop is left (break, or its condition is false): the lines are drawn.
TitleDraw ==
    /\ title.pc = "loop"
    /\ title.fit.exited \/ ~LoopCondition(TitleCfg, title.fit)
    /\ title' = [title EXCEPT !.pc = "returned",
                              !.drawn = TitleFillTexts(TitleCanvas, TitleCfg, TitleBounds,
                                                       TitleCategoryY, title.fit)]
    /\ UNCHANGED <<calls, files, now, color, layout, catalog, listing, gradient, sweeper, download>>

TitleNext == TitleCall \/ TitleEnter \/ TitleIterate \/ TitleDraw

\* ------------------------------------------------------- template lookup
\* Names every object literal inherits from Object.prototype: templates[id]
\* finds them although they are no keys of the catalog.
ObjectPrototypeKeys == {"constructor", "toString", "__proto__"}

\* What such an inherited member looks like to generateImage: it has no config.
InheritedMember == [id |-> "", name |-> "Object", config |-> None]

\* templates[templateId] || templates.classic
getTemplate(templateId) ==
    IF templateId \in TemplateIds THEN catalog[templateId]
    ELSE IF templateId \in ObjectPrototypeKeys THEN InheritedMember
    ELSE catalog["classic"]

getTemplateListWithConfig == [i \in 1..Len(TemplateOrder) |-> catalog[TemplateOrder[i]]]

\* Object.values(templates).map(({ id, name, description, preview }) =>
\*     ({ id, name, description, preview }))
getTemplateList ==
    [i \in 1..Len(TemplateOrder) |->
        [id |-> catalog[TemplateOrder[i]].id,
         name |-> catalog[TemplateOrder[i]].name,
         description |-> catalog[TemplateOrder[i]].description,
         preview |-> catalog[TemplateOrder[i]].preview]]

\* ------------------------------------------------------------- the network
\* Redirect hops followed before the model stops following (the code has no bound).
MaxHops == 3

Url(host, path) == [host |-> host, path |-> path]

AbsoluteLocation(host, path) == [absolute |-> TRUE, host |-> host, path |-> path]

RelativeLocation(path) == [absolute |-> FALSE, host |-> "", path |-> path]

ResolveIgnoringBase(location, url) ==
    IF location.absolute THEN Url(location.host, location.path)
    ELSE Url("cdn.example", location.path)

\* new URL(location, url).href
ResolveLocation(location, url) ==
    IF location.absolute THEN Url(location.host, location.path)
    ELSE Url(url.host, location.path)

\* What a server answers: fault "request" is a connection error (no response),
\* fault "stream" a body that errors before its end.
Response(status, location, body, fault) ==
    [status |-> status, location |-> location, body |-> body, fault |-> fault]

\* A chain of redirects on one host: /hop<n> answers 302 with the Location
\* /hop<n-1>, and /hop0 answers the image.
ChainPaths == <<"/hop0", "/hop1", "/hop2", "/hop3", "/hop4", "/hop5", "/hop6", "/hop7">>

\* The number of redirects between a path of the chain and its image.
ChainHops(path) == (CHOOSE i \in 1..Len(ChainPaths) : ChainPaths[i] = path) - 1

\* The servers of the modelled world.
Web(url) ==
    CASE url.host = "chain.example" ->
            IF ChainHops(url.path) = 0 THEN Response(200, None, "image", "none")
            ELSE Response(302, Some(RelativeLocation(ChainPaths[ChainHops(url.path)])),
                          "none", "none")
      [] url = Url("a.example", "/img.png") -> Response(200, None, "image", "none")
      [] url = Url("a.example", "/page") -> Response(200, None, "html", "none")
      [] url = Url("a.example", "/missing") -> Response(404, None, "html", "none")
      [] url = Url("a.example", "/created") -> Response(201, None, "image", "none")
      [] url = Url("a.example", "/moved") ->
            Response(301, Some(RelativeLocation("/img.png")), "none", "none")
      [] url = Url("a.example", "/abs") ->
            Response(302, Some(AbsoluteLocation("cdn.example", "/pic")), "none", "none")
      [] url = Url("a.example", "/gone") ->
            Response(307, Some(RelativeLocation("/missing")), "none", "none")
      [] url = Url("a.example", "/noloc") -> Response(301, None, "none", "none")
      [] url = Url("a.example", "/loop") ->
            Response(302, Some(RelativeLocation("/loop")), "none", "none")
      [] url = Url("a.example", "/trunc") -> Response(200, None, "image", "stream")
      [] url = Url("down.example", "/img.png") -> Response(0, None, "none", "request")
      [] url = Url("cdn.example", "/pic") -> Response(200, None, "image", "none")
      [] OTHER -> Response(404, None, "html", "none")

BgUrls ==
    {Url("a.example", p) : p \in {"/img.png", "/page", "/missing", "/created", "/moved",
                                  "/abs", "/gone", "/noloc", "/loop", "/trunc"}}
    \cup {Url("down.example", "/img.png")}
    \cup {Url("chain.example", ChainPaths[i + 1]) : i \in 1..MaxHops}

\* The response is a redirect fetchImageFromUrl follows.
IsRedirect(r) == r.status >= 300 /\ r.status < 400 /\ IsDefined(r.location)

\* The response is one fetchImageFromUrl rejects on.
IsRejected(r) == r.status # 200

\* -------------------------------------------------------------- requests
RequestBody(templateId, categoryText, mainText, bgImageUrl, bgImageBase64) ==
    [templateId |-> templateId, categoryText |-> categoryText, mainText |-> mainText,
     bgImageUrl |-> bgImageUrl, bgImageBase64 |-> bgImageBase64,
     bannerColor |-> None, bannerOpacity |-> None,
     categoryColor |-> None, titleColor |-> None]

\* No title, the empty string, a single space, "Hello World", and a title of
\* five over-long words.
HelloWorld == <<5, 5>>

MainTexts ==
    {None, Some(<<0>>), Some(<<0, 0>>), Some(HelloWorld), Some(<<60, 60, 60, 60, 60>>)}

RequestTemplateIds ==
    {None, Some("doesNotExist"), Some("constructor")} \cup {Some(id) : id \in TemplateIds}

\* Inline image data that decodes, and data that does not.
InlineImages == {None, Some("png"), Some("garbage")}

Bodies ==
    {RequestBody(t, c, m, u, b) :
        t \in RequestTemplateIds, c \in {None, Some(<<0>>)}, m \in MainTexts,
        u \in {None} \cup {Some(x) : x \in BgUrls}, b \in InlineImages}

\* A request body with its override fields set.
WithOverrides(body, bannerColor, bannerOpacity, categoryColor, titleColor) ==
    [body EXCEPT !.bannerColor = bannerColor, !.bannerOpacity = bannerOpacity,
                 !.categoryColor = categoryColor, !.titleColor = titleColor]

\* Banner colors a request overrides with: none, the empty string, a color,
\* and a color name hexToRgb does not know.
BannerColors ==
    {None, Some(<<>>), Some(<<"#", "3", "3", "6", "6", "9", "9">>), Some(<<"r", "e", "d">>)}

\* Banner opacities: none, null, 0, 0.5, and the string "0.5".
BannerOpacities ==
    {None, Some(JsonNull), Some(JsonNumber(0)), Some(JsonNumber(50)), Some(JsonString(50))}

CategoryColors == {None, Some(""), Some("#112233")}

TitleColors == {None, Some(""), Some("#445566")}

\* The requests of the override runs: every catalog template, every mix of
\* the four overrides.
OverrideBodies ==
    {WithOverrides(RequestBody(Some(t), k, Some(HelloWorld), None, None), bc, bo, cc, tc) :
        t \in TemplateIds, k \in {None, Some(<<0>>)}, bc \in BannerColors,
        bo \in BannerOpacities, cc \in CategoryColors, tc \in TitleColors}

\* The requests of the catalog runs: with every override set, and with none.
AllOverrides(body) ==
    WithOverrides(body, Some(<<"#", "3", "3", "6", "6", "9", "9">>), Some(JsonNumber(50)),
                  Some("#112233"), Some("#445566"))

CatalogBodies ==
    LET plain == {RequestBody(t, None, Some(HelloWorld), None, None) :
                     t \in {Some("modernDark"), Some("prayerCover")}}
    IN plain \cup {AllOverrides(b) : b \in plain}

\* The requests of the concurrent runs: no background, an inline one, fetched ones.
ConcurrentBodies ==
    {RequestBody(t, None, Some(HelloWorld), u, b) :
        t \in {None, Some("prayerCover")},
        u \in {None, Some(Url("a.example", "/img.png")), Some(Url("a.example", "/missing"))},
        b \in {None, Some("png")}}

\* Connections the server handles at once.
MaxCalls == 2

\* Last reading of the clock.
MaxClock == 2

Calls == 1..MaxCalls

NoCall ==
    [pc |-> "idle", body |-> RequestBody(None, None, None, None, None),
     templateId |-> "", url |-> None, requests |-> <<>>, fetch |-> "none",
     buffer |-> None, assetLoaded |-> None,
     stages |-> <<>>, canvas |-> <<>>, res |-> None]

IsBlankEmptyOnly(text) == text = <<0>>

\* A JavaScript string is blank when trim() leaves nothing.
IsBlank(text) == SumLens(text) = 0

\* -------------------------------------------------- the stages of one render
\* The while loop of drawTitle run to its end.
RECURSIVE FitRun(_, _, _, _, _)
FitRun(titleConfig, titleText, maxWidth, maxHeight10, s) ==
    IF s.exited \/ ~LoopCondition(titleConfig, s) THEN s
    ELSE FitRun(titleConfig, titleText, maxWidth, maxHeight10,
                FitStep(titleConfig, titleText, maxWidth, maxHeight10, s))

drawTitle(canvas, titleConfig, titleText, bannerBounds, categoryY) ==
    IF ~Truthy(titleText) THEN <<>>
    ELSE TitleFillTexts(canvas, titleConfig, bannerBounds, categoryY,
                        FitRun(titleConfig, titleText,
                               TitleMaxWidth(canvas, titleConfig, bannerBounds),
                               TitleMaxHeight10(canvas, bannerBounds),
                               FitStart(titleConfig)))

BackgroundSourceUrlFirst(body, bgConfig) ==
    IF IsDefined(body.bgImageUrl) THEN "url"
    ELSE IF IsDefined(body.bgImageBase64) THEN "inline"
    ELSE IF bgConfig.type = "image" THEN "asset"
    ELSE "template"

\* Where drawBackground takes the background from: the request's inline image,
\* else the request's URL, else the template (its bundled image is loaded).
BackgroundSource(body, bgConfig) ==
    IF IsDefined(body.bgImageBase64) THEN "inline"
    ELSE IF IsDefined(body.bgImageUrl) THEN "url"
    ELSE IF bgConfig.type = "image" THEN "asset"
    ELSE "template"

\* What the template background paints: "image" is decided by the asset load.
TemplateBackground(bgConfig) ==
    IF bgConfig.type = "solid" THEN "template solid"
    ELSE IF bgConfig.type = "gradient" THEN "template gradient"
    ELSE "template image"

\* The bannerOpacity the handler passes to generateImage:
\* bannerOpacity !== undefined ? parseFloat(bannerOpacity) : undefined
PassedOpacity(body) ==
    IF IsDefined(body.bannerOpacity) THEN Some(parseFloat(body.bannerOpacity[1])) ELSE None

DrawnAfterBackgroundTitleFirst(config, body) ==
    LET bannerBounds == drawBanner(config.canvas, config.banner)
        categoryText == OrElse(body.categoryText, <<8>>)
        categoryY == drawCategory(config.canvas, config.category, categoryText, bannerBounds)
    IN <<[stage |-> "decorations", drawn |-> config.decorations],
         [stage |-> "banner", drawn |-> bannerBounds,
          fill |-> BannerFill(config.banner, body.bannerColor, PassedOpacity(body))],
         [stage |-> "title",
          drawn |-> drawTitle(config.canvas, config.title, body.mainText[1],
                              bannerBounds, None),
          fill |-> Some(TextFill(body.titleColor, config.title.defaultColor))],
         [stage |-> "category", drawn |-> categoryY, text |-> categoryText,
          fill |-> IF Truthy(categoryText)
                   THEN Some(TextFill(body.categoryColor, config.category.defaultColor))
                   ELSE None],
         [stage |-> "subtitle", drawn |-> config.subtitle]>>

\* The stages after the background: each appends what it draws to the canvas.
DrawnAfterBackground(config, body) ==
    LET bannerBounds == drawBanner(config.canvas, config.banner)
        categoryText == OrElse(body.categoryText, <<8>>)
        categoryY == drawCategory(config.canvas, config.category, categoryText, bannerBounds)
    IN <<[stage |-> "decorations", drawn |-> config.decorations],
         [stage |-> "banner", drawn |-> bannerBounds,
          fill |-> BannerFill(config.banner, body.bannerColor, PassedOpacity(body))],
         [stage |-> "category", drawn |-> categoryY, text |-> categoryText,
          fill |-> IF Truthy(categoryText)
                   THEN Some(TextFill(body.categoryColor, config.category.defaultColor))
                   ELSE None],
         [stage |-> "title",
          drawn |-> drawTitle(config.canvas, config.title, body.mainText[1],
                              bannerBounds, categoryY),
          fill |-> Some(TextFill(body.titleColor, config.title.defaultColor))],
         [stage |-> "subtitle", drawn |-> config.subtitle]>>

StageNames(drawn) == [i \in 1..Len(drawn) |-> drawn[i].stage]

FilenamePng(t) == [prefix |-> "featured-image-", id |-> t, ext |-> ".png"]

\* `featured-image-${Date.now()}.webp`
Filename(t) == [prefix |-> "featured-image-", id |-> t, ext |-> ".webp"]

\* config.baseUrl ? `${config.baseUrl}/images/${filename}`
\*                : `${protocol}://${host}/images/${filename}`
DownloadUrl(baseUrl, protocol, host, filename) ==
    [origin |-> IF baseUrl # "" THEN <<baseUrl>> ELSE <<protocol, "://", host>>,
     path |-> "/images/", filename |-> filename]

\* The 200 answer, for a request to http://localhost:3001 with no BASE_URL set.
Ok(filename) ==
    [status |-> 200, success |-> TRUE, filename |-> Some(filename), error |-> "",
     downloadUrl |-> Some(DownloadUrl("", "http", "localhost:3001", filename))]

Failure(status, error) ==
    [status |-> status, success |-> FALSE, filename |-> None, error |-> error,
     downloadUrl |-> None]

\* fs.writeFileSync: a file of that name is replaced.
WriteFile(fs, file) == {f \in fs : f.name # file.name} \cup {file}

CompleteStoringOverrides(c, call, background) ==
    LET config == getTemplate(call.templateId).config[1]
        canvas == <<[stage |-> "background", drawn |-> background]>>
                      \o DrawnAfterBackground(config, call.body)
        filename == Filename(now)
    IN /\ calls' = [calls EXCEPT ![c] =
                       [call EXCEPT !.pc = "responded",
                                    !.canvas = canvas,
                                    !.stages = @ \o StageNames(canvas) \o <<"encode", "write">>,
                                    !.res = Some(Ok(filename))]]
       /\ files' = WriteFile(files, [name |-> filename, by |-> c,
                                     layers |-> StageNames(canvas),
                                     width |-> config.canvas.width,
                                     height |-> config.canvas.height,
                                     mtime |-> now])
       /\ catalog' =
             IF call.templateId \in TemplateIds
             THEN [catalog EXCEPT ![call.templateId].config =
                      Some([config EXCEPT !.title.defaultColor =
                                              TextFill(call.body.titleColor, @)])]
             ELSE catalog

\* The background is painted: the rest of generateImage and the 200 response.
\* The template is only read.
Complete(c, call, background) ==
    LET config == getTemplate(call.templateId).config[1]
        canvas == <<[stage |-> "background", drawn |-> background]>>
                      \o DrawnAfterBackground(config, call.body)
        filename == Filename(now)
    IN /\ calls' = [calls EXCEPT ![c] =
                       [call EXCEPT !.pc = "responded",
                                    !.canvas = canvas,
                                    !.stages = @ \o StageNames(canvas) \o <<"encode", "write">>,
                                    !.res = Some(Ok(filename))]]
       /\ files' = WriteFile(files, [name |-> filename, by |-> c,
                                     layers |-> StageNames(canvas),
                                     width |-> config.canvas.width,
                                     height |-> config.canvas.height,
                                     mtime |-> now])
       /\ UNCHANGED catalog

RejectSwallowed(c, call, error) ==
    IF IsDefined(getTemplate(call.templateId).config)
    THEN Complete(c, call, "fallback gradient")
    ELSE /\ calls' = [calls EXCEPT ![c] = [call EXCEPT !.pc = "responded",
                                                       !.res = Some(Failure(500, error))]]
         /\ UNCHANGED <<files, catalog>>

\* generateImage rejects: the handler's catch answers 500.
Reject(c, call, error) ==
    /\ calls' = [calls EXCEPT ![c] = [call EXCEPT !.pc = "responded",
                                                  !.res = Some(Failure(500, error))]]
    /\ UNCHANGED <<files, catalog>>

\* ------------------------------------------------------------- operations
\* POST /api/generate-image up to the first await of generateImage: the
\* validation, the template lookup, and the start of the background stage.
PostGenerateImage(c, body) ==
    /\ calls[c].pc = "idle"
    /\ UNCHANGED <<title, now, color, layout, listing, gradient, sweeper, download>>
    /\ IF ~IsDefined(body.mainText) \/ IsBlank(body.mainText[1])
       THEN /\ calls' = [calls EXCEPT ![c] =
                            [@ EXCEPT !.pc = "responded", !.body = body,
                                      !.res = Some(Failure(400, "Main title text is required"))]]
            /\ UNCHANGED <<files, catalog>>
       ELSE LET templateId == OrElse(body.templateId, "classic")
                template == getTemplate(templateId)
                call == [calls[c] EXCEPT !.body = body, !.templateId = templateId,
                                         !.stages = <<"template">>]
            IN IF ~IsDefined(template.config)
               THEN Reject(c, call, "Cannot read properties of undefined")
               ELSE LET source == BackgroundSource(body, template.config[1].background)
                    IN IF source = "inline"
                       THEN /\ calls' = [calls EXCEPT ![c] = [call EXCEPT !.pc = "loadInline"]]
                            /\ UNCHANGED <<files, catalog>>
                       ELSE IF source = "url"
                       THEN /\ calls' = [calls EXCEPT ![c] =
                                            [call EXCEPT !.pc = "fetching",
                                                         !.url = body.bgImageUrl,
                                                         !.requests = <<body.bgImageUrl[1]>>,
                                                         !.fetch = "pending"]]
                            /\ UNCHANGED <<files, catalog>>
                       ELSE IF source = "asset"
                       THEN /\ calls' = [calls EXCEPT ![c] = [call EXCEPT !.pc = "loadAsset"]]
                            /\ UNCHANGED <<files, catalog>>
                       ELSE Complete(c, call, TemplateBackground(template.config[1].background))

\* loadImage(bgImageBase64) settles.
InlineLoaded(c) ==
    /\ calls[c].pc = "loadInline"
    /\ UNCHANGED <<title, now, color, layout, listing, gradient, sweeper, download>>
    /\ IF calls[c].body.bgImageBase64 = Some("png")
       THEN Complete(c, calls[c], "user inline")
       ELSE Reject(c, calls[c], "Background image loading failed: Unsupported image type")

HttpResponseHopLimit(c) ==
    /\ calls[c].pc = "fetching"
    /\ UNCHANGED <<title, now, color, layout, listing, gradient, sweeper, download>>
    /\ LET url == calls[c].url[1]
           r == Web(url)
           rejected == [calls[c] EXCEPT !.fetch = "rejected"]
       IN IF r.fault = "request"
          THEN Reject(c, rejected, "Background image loading failed: Request error")
          ELSE IF IsRedirect(r) /\ Len(calls[c].requests) > 2
          THEN Reject(c, rejected, "Background image loading failed: Too many redirects")
          ELSE IF IsRedirect(r)
          THEN /\ calls' = [calls EXCEPT ![c] =
                               [@ EXCEPT !.url = Some(ResolveLocation(r.location[1], url)),
                                         !.requests = Append(@, ResolveLocation(r.location[1], url))]]
               /\ UNCHANGED <<files, catalog>>
          ELSE IF IsRejected(r)
          THEN Reject(c, rejected, "Background image loading failed: Failed to fetch image")
          ELSE IF r.fault = "stream"
          THEN Reject(c, rejected, "Background image loading failed: Stream error")
          ELSE /\ calls' = [calls EXCEPT ![c] =
                               [@ EXCEPT !.pc = "loadFetched", !.fetch = "resolved",
                                         !.buffer = Some(r.body)]]
               /\ UNCHANGED <<files, catalog>>

\* The callback (or the error event) of protocol.get for the current URL.
HttpResponse(c) ==
    /\ calls[c].pc = "fetching"
    /\ UNCHANGED <<title, now, color, layout, listing, gradient, sweeper, download>>
    /\ LET url == calls[c].url[1]
           r == Web(url)
           rejected == [calls[c] EXCEPT !.fetch = "rejected"]
       IN IF r.fault = "request"
          THEN Reject(c, rejected, "Background image loading failed: Request error")
          ELSE IF IsRedirect(r)
          THEN /\ Len(calls[c].requests) <= MaxHops
               /\ calls' = [calls EXCEPT ![c] =
                               [@ EXCEPT !.url = Some(ResolveLocation(r.location[1], url)),
                                         !.requests = Append(@, ResolveLocation(r.location[1], url))]]
               /\ UNCHANGED <<files, catalog>>
          ELSE IF IsRejected(r)
          THEN Reject(c, rejected, "Background image loading failed: Failed to fetch image")
          ELSE IF r.fault = "stream"
          THEN Reject(c, rejected, "Background image loading failed: Stream error")
          ELSE /\ calls' = [calls EXCEPT ![c] =
                               [@ EXCEPT !.pc = "loadFetched", !.fetch = "resolved",
                                         !.buffer = Some(r.body)]]
               /\ UNCHANGED <<files, catalog>>

\* loadImage(imageBuffer) settles.
FetchedLoaded(c) ==
    /\ calls[c].pc = "loadFetched"
    /\ UNCHANGED <<title, now, color, layout, listing, gradient, sweeper, download>>
    /\ IF calls[c].buffer = Some("image")
       THEN Complete(c, calls[c], "user url")
       ELSE Reject(c, calls[c], "Background image loading failed: Unsupported image type")

AssetLoadedFailurePropagates(c) ==
    /\ calls[c].pc = "loadAsset"
    /\ UNCHANGED <<title, now, color, layout, listing, gradient, sweeper, download>>
    /\ \E loaded \in BOOLEAN :
          LET call == [calls[c] EXCEPT !.assetLoaded = Some(loaded)]
          IN IF loaded THEN Complete(c, call, "template image")
             ELSE Reject(c, call, "Background image loading failed")

\* loadImage(bgConfig.imagePath) settles: the bundled asset loads, or it does
\* not and the catch paints the fallback gradient.
AssetLoaded(c) ==
    /\ calls[c].pc = "loadAsset"
    /\ UNCHANGED <<title, now, color, layout, listing, gradient, sweeper, download>>
    /\ \E loaded \in BOOLEAN :
          Complete(c, [calls[c] EXCEPT !.assetLoaded = Some(loaded)],
                   IF loaded THEN "template image" ELSE "fallback gradient")

\* GET /api/templates: the list is built from the catalog.
GetTemplateList ==
    /\ listing' = Some(getTemplateList)
    /\ UNCHANGED <<title, calls, files, now, color, layout, catalog, gradient, sweeper, download>>

\* A millisecond passes.
Tick ==
    /\ now < MaxClock
    /\ now' = now + 1
    /\ UNCHANGED <<title, calls, files, color, layout, catalog, listing, gradient, sweeper, download>>

\* ------------------------------------------------- hexToRgb, called alone
NoColor == [hex |-> <<>>, rgb |-> None]

\* Every hex digit, in both cases.
AllHexChars == {HexChars[i] : i \in 1..16} \cup {UpperHexChars[i] : i \in 1..16}

\* The digits the six-digit colors are built from.
SampleHexChars == {"0", "9", "a", "F"}

\* Six digits: every pair of digits in each channel, and every mix of the
\* sample digits.
SixDigits ==
    {<<x, y, "0", "0", "0", "0">> : x \in AllHexChars, y \in AllHexChars}
    \cup {<<"0", "0", x, y, "0", "0">> : x \in AllHexChars, y \in AllHexChars}
    \cup {<<"0", "0", "0", "0", x, y>> : x \in AllHexChars, y \in AllHexChars}
    \cup [1..6 -> SampleHexChars]

\* Strings that are no six-digit color: the empty string, the 3-digit
\* shorthand, five and seven digits, a letter past f, a doubled #, a # after
\* the digits, a trailing line break, an rgba(...) string and a color name.
Malformed ==
    {<<>>, <<"#">>, <<"#", "f", "f", "f">>, <<"f", "f", "f">>,
     <<"#", "1", "2", "3", "4", "5">>, <<"#", "1", "2", "3", "4", "5", "6", "7">>,
     <<"1", "2", "3", "4", "5", "6", "7">>,
     <<"#", "g", "0", "0", "0", "0", "0">>, <<"#", "0", "0", "0", "0", "0", "G">>,
     <<"#", "#", "0", "0", "0", "0", "0", "0">>, <<"0", "0", "0", "0", "0", "0", "#">>,
     <<"#", "a", "b", "c", "d", "e", "f", "\n">>, <<" ", "#", "a", "b", "c", "d", "e", "f">>,
     <<"r", "g", "b", "a", "(", "2", "5", "5", ",", "0", ",", "0", ",", "1", ")">>,
     <<"r", "e", "d">>, <<"#", "1", "2", " ", "4", "5", "6">>}

HexInputs == SixDigits \cup {<<"#">> \o d : d \in SixDigits} \cup Malformed

\* hexToRgb(color.hex) returns.
HexToRgb ==
    /\ color.rgb = None
    /\ color' = [color EXCEPT !.rgb = Some(hexToRgb(color.hex))]
    /\ UNCHANGED <<title, calls, files, now, layout, catalog, listing, gradient, sweeper, download>>

\* -------------------------- banner, category and title stages on any config
\* The configs the stages are run on: the banners of Classic and Modern Dark
\* or none, and category and title configs with and without explicit
\* coordinates, offsets, alignment and wrap width.
LayoutBanners ==
    {None, Some(CenteredBanner(340, 100, WhiteHex, Some(85))),
     Some(BoxBanner("left", 80, 120, 700, 390, WhiteHex, Some(5)))}

LayoutCategories ==
    {CategoryConfig(Font("500", Some(24), "Arial"), "#c67c4e", x, y, offsetY, align, FALSE) :
        x \in {None, Some(120)}, y \in {None, Some(0), Some(180)},
        offsetY \in {None, Some(0), Some(70)}, align \in {None, Some("left")}}

LayoutTitles ==
    {TitleConfig(Font("400", Some(64), "Georgia"), "#1a1a1a", Some(80),
                 x, y, offsetY, align, maxWidth, None) :
        x \in {None, Some(120)}, y \in {None, Some(260)},
        offsetY \in {None, Some(0), Some(80)}, align \in {None, Some("left")},
        maxWidth \in {None, Some(-160), Some(0), Some(620)}}

\* The title the stages are run with: three words of twenty characters.
LayoutTitleText == <<20, 20, 20>>

IdleLayout ==
    [pc |-> "idle", canvas |-> Canvas1200x630, banner |-> None,
     category |-> classic.config[1].category, categoryText |-> <<0>>,
     title |-> classic.config[1].title,
     titleText |-> LayoutTitleText,
     bannerBounds |-> None, bannerRect |-> None, categoryX |-> None, categoryDrawnY |-> None,
     categoryY |-> None, maxWidth |-> None, drawn |-> <<>>]

\* generateImage reaches the banner stage with a config and a category text.
LayoutCall ==
    /\ layout.pc = "idle"
    /\ \E b \in LayoutBanners, k \in LayoutCategories, t \in LayoutTitles,
          w \in CategoryTexts :
          layout' = [layout EXCEPT !.pc = "banner", !.banner = b, !.category = k,
                                   !.title = t, !.categoryText = w]
    /\ UNCHANGED <<title, calls, files, now, color, catalog, listing, gradient, sweeper, download>>

\* const bannerBounds = drawBanner(...)
LayoutBanner ==
    /\ layout.pc = "banner"
    /\ layout' = [layout EXCEPT !.pc = "category",
                                !.bannerBounds = drawBanner(layout.canvas, layout.banner),
                                !.bannerRect = BannerRect(layout.canvas, layout.banner)]
    /\ UNCHANGED <<title, calls, files, now, color, catalog, listing, gradient, sweeper, download>>

\* const categoryY = drawCategory(...): nothing is resolved for an empty text.
LayoutCategory ==
    /\ layout.pc = "category"
    /\ layout' =
          IF ~Truthy(layout.categoryText)
          THEN [layout EXCEPT !.pc = "title"]
          ELSE [layout EXCEPT
                  !.pc = "title",
                  !.categoryX = CategoryX(layout.canvas, layout.category, layout.bannerBounds),
                  !.categoryDrawnY = CategoryY(layout.category, layout.bannerBounds),
                  !.categoryY = drawCategory(layout.canvas, layout.category,
                                             layout.categoryText, layout.bannerBounds)]
    /\ UNCHANGED <<title, calls, files, now, color, catalog, listing, gradient, sweeper, download>>

\* drawTitle(...)
LayoutTitle ==
    /\ layout.pc = "title"
    /\ layout' = [layout EXCEPT
                    !.pc = "done",
                    !.maxWidth = Some(TitleMaxWidth(layout.canvas, layout.title,
                                                    layout.bannerBounds)),
                    !.drawn = drawTitle(layout.canvas, layout.title, layout.titleText,
                                        layout.bannerBounds, layout.categoryY)]
    /\ UNCHANGED <<title, calls, files, now, color, catalog, listing, gradient, sweeper, download>>

LayoutNext == LayoutCall \/ LayoutBanner \/ LayoutCategory \/ LayoutTitle

\* Title configs of custom templates: the README's example with the font at
\* several sizes and without a size, beside the title configs of the catalog.
CustomTitles ==
    {TitleConfig(Font("400", px, "Georgia"), "#1a1a1a", Some(80),
                 None, None, Some(80), None, maxWidth, None) :
        px \in {None, Some(24), Some(30), Some(64)}, maxWidth \in {None, Some(-160)}}
    \cup {templates[id].config[1].title : id \in TemplateIds}

\* Titles that are not blank: "Hello World", three and five long words, and
\* " Hello  World" with its leading and its doubled space.
CustomTitleTexts == {HelloWorld, <<20, 20, 20>>, <<60, 60, 60, 60, 60>>, <<0, 5, 0, 5>>}

\* The banners drawBanner is run with alone: the three variants over several
\* positions and sizes, a banner of an unknown type, and no banner.
BannerConfigs ==
    {None}
    \cup {Some(CenteredBanner(h, p, WhiteHex, Some(85))) : h \in {200, 340, 630}, p \in {0, 100, 300}}
    \cup {Some(BoxBanner(t, x, y, w, h, WhiteHex, Some(5))) :
            t \in {"left", "floating", "panel"}, x \in {0, 80}, y \in {0, 120},
            w \in {700, 1000}, h \in {390, 400}}

BannerCanvases == {Canvas1200x630, [width |-> 1080, height |-> 1080]}

\* ------------------------------------------------------------------ cleanup
\* The clock of the cleanup specification counts minutes.
MaxCleanupClock == 36

\* process.env.CLEANUP_ENABLED, CLEANUP_INTERVAL_MINUTES, CLEANUP_MAX_AGE_MINUTES
Env(enabled, intervalMinutes, maxAgeMinutes) ==
    [CLEANUP_ENABLED |-> enabled, CLEANUP_INTERVAL_MINUTES |-> intervalMinutes,
     CLEANUP_MAX_AGE_MINUTES |-> maxAgeMinutes]

Envs ==
    {Env(e, i, m) : e \in {None, Some("true"), Some("false")},
                    i \in {None, Some(0), Some(2)},
                    m \in {None, Some(3)}}

\* parseInt(value) || fallback: an unset variable and 0 both give the default.
ParseIntOr(value, fallback) ==
    IF IsDefined(value) /\ value[1] # 0 THEN value[1] ELSE fallback

\* config.cleanup
CleanupConfig(env) ==
    [enabled |-> env.CLEANUP_ENABLED # Some("false"),
     intervalMinutes |-> ParseIntOr(env.CLEANUP_INTERVAL_MINUTES, 5),
     maxAgeMinutes |-> ParseIntOr(env.CLEANUP_MAX_AGE_MINUTES, 30)]

GitKeep == [prefix |-> ".gitkeep", id |-> 0, ext |-> ""]

\* A file the server finds in the generated directory when it starts.
FoundFile(name, mtime) ==
    [name |-> name, by |-> 0, layers |-> <<>>, width |-> 0, height |-> 0, mtime |-> mtime]

\* Images of an earlier run: one five minutes old, one forty minutes old.
Leftovers == {FoundFile(Filename(-5), -5), FoundFile(Filename(-40), -40)}

cleanupOldImagesInclusive(config, fs, t) ==
    IF ~config.enabled THEN fs
    ELSE {f \in fs : f.name = GitKeep \/ ~(t - f.mtime >= config.maxAgeMinutes)}

cleanupOldImagesLate(config, fs, t) ==
    IF ~config.enabled THEN fs
    ELSE {f \in fs : f.name = GitKeep
                        \/ ~(t - f.mtime > config.maxAgeMinutes + config.intervalMinutes)}

\* cleanupOldImages at time t: the files it leaves in the directory.
cleanupOldImages(config, fs, t) ==
    IF ~config.enabled THEN fs
    ELSE {f \in fs : f.name = GitKeep \/ ~(t - f.mtime > config.maxAgeMinutes)}

NoSweeper ==
    [config |-> CleanupConfig(Env(None, None, None)), started |-> FALSE,
     due |-> None, swept |-> 0]

\* The end of the module's evaluation: with cleanup enabled the interval timer
\* is set and cleanupOldImages runs once.
Startup ==
    /\ ~sweeper.started
    /\ IF sweeper.config.enabled
       THEN /\ files' = cleanupOldImages(sweeper.config, files, now)
            /\ sweeper' = [sweeper EXCEPT !.started = TRUE,
                                          !.due = Some(now + sweeper.config.intervalMinutes),
                                          !.swept = 1]
       ELSE /\ files' = files
            /\ sweeper' = [sweeper EXCEPT !.started = TRUE]
    /\ UNCHANGED <<title, calls, now, color, layout, catalog, listing, gradient, download>>

\* The interval timer fires: cleanupOldImages runs and the timer is re-armed.
Sweep ==
    /\ sweeper.started
    /\ IsDefined(sweeper.due)
    /\ now = sweeper.due[1]
    /\ files' = cleanupOldImages(sweeper.config, files, now)
    /\ sweeper' = [sweeper EXCEPT !.due = Some(@[1] + sweeper.config.intervalMinutes),
                                  !.swept = @ + 1]
    /\ UNCHANGED <<title, calls, now, color, layout, catalog, listing, gradient, download>>

\* A minute passes; a timer that is due fires first.
Elapse ==
    /\ sweeper.started
    /\ now < MaxCleanupClock
    /\ IsDefined(sweeper.due) => now < sweeper.due[1]
    /\ now' = now + 1
    /\ UNCHANGED <<title, calls, files, color, layout, catalog, listing, gradient, sweeper, download>>

\* The requests of the cleanup specification.
CleanupBodies ==
    {RequestBody(t, None, m, None, None) :
        t \in {None, Some("prayerCover")}, m \in {None, Some(HelloWorld)}}

\* ------------------------------------------- fetchImageFromUrl, called alone
\* The bytes of a response body.
Bytes(body) ==
    CASE body = "image" -> <<"R", "I", "F", "F">>
      [] body = "html" -> <<"<", "p", ">">>
      [] OTHER -> <<>>

\* Buffer.concat(chunks)
RECURSIVE BufferConcat(_)
BufferConcat(chunks) ==
    IF chunks = <<>> THEN <<>> ELSE Head(chunks) \o BufferConcat(Tail(chunks))

Resolved(value) == [kind |-> "resolved", value |-> value, message |-> ""]

Rejected(message) == [kind |-> "rejected", value |-> <<>>, message |-> message]

\* resolve and reject of the promise: only the first call settles it.
Settle(promise, outcome) == IF IsDefined(promise) THEN promise ELSE Some(outcome)

NoDownload ==
    [pc |-> "idle", requests |-> <<>>, chunks |-> <<>>, arrived |-> 0, promise |-> None]

\* The URL of the request in flight.
CurrentUrl == download.requests[Len(download.requests)]

\* fetchImageFromUrl(url): protocol.get is called once.
FetchImageFromUrl(url) ==
    /\ download.pc = "idle"
    /\ download' = [download EXCEPT !.pc = "requesting", !.requests = <<url>>]
    /\ UNCHANGED <<title, calls, files, now, color, layout, catalog, listing, gradient, sweeper>>

\* The request's "error" event: there is no response.
OnRequestError ==
    /\ download.pc = "requesting"
    /\ Web(CurrentUrl).fault = "request"
    /\ download' = [download EXCEPT !.pc = "settled",
                                    !.promise = Settle(@, Rejected("Request error"))]
    /\ UNCHANGED <<title, calls, files, now, color, layout, catalog, listing, gradient, sweeper>>

OnResponseAny2xx ==
    /\ download.pc = "requesting"
    /\ Web(CurrentUrl).fault # "request"
    /\ LET r == Web(CurrentUrl)
       IN IF IsRedirect(r)
          THEN /\ Len(download.requests) <= MaxHops
               /\ download' = [download EXCEPT
                                 !.requests = Append(@, ResolveLocation(r.location[1], CurrentUrl))]
          ELSE IF r.status \notin 200..299
          THEN download' = [download EXCEPT !.pc = "settled",
                                            !.promise = Settle(@, Rejected("Failed to fetch image"))]
          ELSE download' = [download EXCEPT !.pc = "streaming"]
    /\ UNCHANGED <<title, calls, files, now, color, layout, catalog, listing, gradient, sweeper>>

\* The response callback: a redirect is followed by one new request, another
\* status than 200 rejects, and on 200 the stream's handlers are attached.
OnResponse ==
    /\ download.pc = "requesting"
    /\ Web(CurrentUrl).fault # "request"
    /\ LET r == Web(CurrentUrl)
       IN IF IsRedirect(r)
          THEN /\ Len(download.requests) <= MaxHops
               /\ download' = [download EXCEPT
                                 !.requests = Append(@, ResolveLocation(r.location[1], CurrentUrl))]
          ELSE IF IsRejected(r)
          THEN download' = [download EXCEPT !.pc = "settled",
                                            !.promise = Settle(@, Rejected("Failed to fetch image"))]
          ELSE download' = [download EXCEPT !.pc = "streaming"]
    /\ UNCHANGED <<title, calls, files, now, color, layout, catalog, listing, gradient, sweeper>>

\* A "data" event: the network delivers the next bytes as one chunk, of any
\* size; a stream that fails never delivers its last byte.
OnData ==
    /\ download.pc = "streaming"
    /\ LET r == Web(CurrentUrl)
           body == Bytes(r.body)
           last == IF r.fault = "stream" THEN Len(body) - 1 ELSE Len(body)
       IN \E n \in 1..(last - download.arrived) :
             download' = [download EXCEPT
                            !.chunks = Append(@, SubSeq(body, download.arrived + 1,
                                                        download.arrived + n)),
                            !.arrived = @ + n]
    /\ UNCHANGED <<title, calls, files, now, color, layout, catalog, listing, gradient, sweeper>>

\* The "end" event: resolve(Buffer.concat(chunks)).
OnEnd ==
    /\ download.pc = "streaming"
    /\ Web(CurrentUrl).fault = "none"
    /\ download.arrived = Len(Bytes(Web(CurrentUrl).body))
    /\ download' = [download EXCEPT
                      !.pc = "settled",
                      !.promise = Settle(@, Resolved(BufferConcat(download.chunks)))]
    /\ UNCHANGED <<title, calls, files, now, color, layout, catalog, listing, gradient, sweeper>>

\* The stream's "error" event, at any point before the end of the body.
OnStreamError ==
    /\ download.pc = "streaming"
    /\ Web(CurrentUrl).fault = "stream"
    /\ download' = [download EXCEPT !.pc = "settled",
                                    !.promise = Settle(@, Rejected("Stream error"))]
    /\ UNCHANGED <<title, calls, files, now, color, layout, catalog, listing, gradient, sweeper>>

\* ---------------------------------------------- angleToCoords, called alone
\* Math.cos and Math.sin of angle * Math.PI / 180 for the angles of the axes.
\* A double is written unit + eps * 10^-20: Math.PI is not pi, so the cosine
\* of 90 and the sine of 180 are tiny numbers, not 0.
Trig(unit, eps) == [unit |-> unit, eps |-> eps]

Cos(angle) ==
    CASE angle = 0 -> Trig(1, 0)
      [] angle = 90 -> Trig(0, 6123)
      [] angle = 180 -> Trig(-1, 0)
      [] angle = 270 -> Trig(0, -18370)
      [] angle = 360 -> Trig(1, 0)

Sin(angle) ==
    CASE angle = 0 -> Trig(0, 0)
      [] angle = 90 -> Trig(1, 0)
      [] angle = 180 -> Trig(0, 12246)
      [] angle = 270 -> Trig(-1, 0)
      [] angle = 360 -> Trig(0, -24493)

\* The spacing of the doubles around a length given in half pixels, in units
\* of 10^-20 pixel: 2^-45 in [128, 256), doubling with every binade.
Ulp(half) ==
    IF half < 512 THEN 2842171
    ELSE IF half < 1024 THEN 5684342
    ELSE IF half < 2048 THEN 11368684
    ELSE 22737368

\* A residue (units of 10^-20 pixel) rounded to the nearest number of ulps.
RoundUlps(residue, ulp) ==
    IF residue >= 0 THEN (2 * residue + ulp) \div (2 * ulp)
    ELSE 0 - ((2 * (0 - residue) + ulp) \div (2 * ulp))

\* extent / 2 + sign * (trig * extent) / 2 as a double: a whole number of half
\* pixels, and the ulps the sum is rounded away from it.
Along(extent, trig, sign) ==
    [half |-> extent + sign * trig.unit * extent,
     ulps |-> RoundUlps(sign * ((trig.eps * extent) \div 2), Ulp(extent))]

angleToCoordsTransposed(angle, width, height) ==
    [x1 |-> Along(width, Sin(angle), -1), y1 |-> Along(height, Cos(angle), -1),
     x2 |-> Along(width, Sin(angle), 1), y2 |-> Along(height, Cos(angle), 1)]

angleToCoords(angle, width, height) ==
    [x1 |-> Along(width, Cos(angle), -1), y1 |-> Along(height, Sin(angle), -1),
     x2 |-> Along(width, Cos(angle), 1), y2 |-> Along(height, Sin(angle), 1)]

AxisAngles == {0, 90, 180, 270, 360}

CanvasWidths == {600, 800, 1080, 1200, 1920}

CanvasHeights == {315, 400, 630, 1080}

NoGradient == [angle |-> 0, width |-> 1200, height |-> 630, coords |-> None]

\* angleToCoords(gradient.angle, gradient.width, gradient.height) returns.
AngleToCoords ==
    /\ gradient.coords = None
    /\ gradient' = [gradient EXCEPT
                      !.coords = Some(angleToCoords(gradient.angle, gradient.width,
                                                    gradient.height))]
    /\ UNCHANGED <<title, calls, files, now, color, layout, catalog, listing, sweeper, download>>

\* ---------------------------------------------------------- specifications
Init ==
    /\ title = IdleTitle
    /\ calls = [c \in Calls |-> NoCall]
    /\ files = {}
    /\ now = 0
    /\ color = NoColor
    /\ layout = IdleLayout
    /\ catalog = templates
    /\ listing = None
    /\ gradient = NoGradient
    /\ sweeper = NoSweeper
    /\ download = NoDownload

\* One request at a time, over every modelled request body.
Next ==
    \/ \E body \in Bodies : PostGenerateImage(1, body)
    \/ InlineLoaded(1)
    \/ HttpResponse(1)
    \/ FetchedLoaded(1)
    \/ AssetLoaded(1)
    \/ Tick

Spec == Init /\ [][Next]_vars

\* Several requests in flight at once.
ConcurrentNext ==
    \/ \E c \in Calls, body \in ConcurrentBodies : PostGenerateImage(c, body)
    \/ \E c \in Calls : InlineLoaded(c)
    \/ \E c \in Calls : HttpResponse(c)
    \/ \E c \in Calls : FetchedLoaded(c)
    \/ \E c \in Calls : AssetLoaded(c)
    \/ Tick

ConcurrentSpec == Init /\ [][ConcurrentNext]_vars

\* One request at a time, over the requests that carry overrides.
OverrideNext ==
    \/ \E body \in OverrideBodies : PostGenerateImage(1, body)
    \/ AssetLoaded(1)
    \/ Tick

OverrideSpec == Init /\ [][OverrideNext]_vars

\* Renders and template listings, interleaved.
CatalogNext ==
    \/ \E c \in Calls, body \in CatalogBodies : PostGenerateImage(c, body)
    \/ \E c \in Calls : AssetLoaded(c)
    \/ GetTemplateList
    \/ Tick

CatalogSpec == Init /\ [][CatalogNext]_vars

\* drawTitle alone, called with any catalog template and any modelled title.
TitleInit ==
    /\ title = IdleTitle
    /\ calls = [c \in Calls |-> NoCall]
    /\ files = {}
    /\ now = 0
    /\ color = NoColor
    /\ layout = IdleLayout
    /\ catalog = templates
    /\ listing = None
    /\ gradient = NoGradient
    /\ sweeper = NoSweeper
    /\ download = NoDownload

TitleSpec == TitleInit /\ [][TitleNext]_vars

\* hexToRgb alone, called with any modelled string.
ColorInit ==
    /\ title = IdleTitle
    /\ calls = [c \in Calls |-> NoCall]
    /\ files = {}
    /\ now = 0
    /\ color \in [hex : HexInputs, rgb : {None}]
    /\ layout = IdleLayout
    /\ catalog = templates
    /\ listing = None
    /\ gradient = NoGradient
    /\ sweeper = NoSweeper
    /\ download = NoDownload

ColorNext == HexToRgb

ColorSpec == ColorInit /\ [][ColorNext]_vars

\* The banner, category and title stages alone, on any modelled config.
LayoutSpec == Init /\ [][LayoutNext]_vars

\* angleToCoords alone, called with an axis angle and a canvas size.
GradientInit ==
    /\ title = IdleTitle
    /\ calls = [c \in Calls |-> NoCall]
    /\ files = {}
    /\ now = 0
    /\ color = NoColor
    /\ layout = IdleLayout
    /\ catalog = templates
    /\ listing = None
    /\ gradient \in [angle : AxisAngles, width : CanvasWidths, height : CanvasHeights,
                      coords : {None}]
    /\ sweeper = NoSweeper
    /\ download = NoDownload

GradientNext == AngleToCoords

GradientSpec == GradientInit /\ [][GradientNext]_vars

\* fetchImageFromUrl alone, called with any modelled URL.
DownloadNext ==
    \/ \E url \in BgUrls : FetchImageFromUrl(url)
    \/ OnRequestError
    \/ OnResponse
    \/ OnData
    \/ OnEnd
    \/ OnStreamError

DownloadSpec == Init /\ [][DownloadNext]_vars

\* The banner, category and title stages for the title config of a custom
\* template; there is no category text.
CustomTitleInit ==
    /\ title = IdleTitle
    /\ calls = [c \in Calls |-> NoCall]
    /\ files = {}
    /\ now = 0
    /\ color = NoColor
    /\ layout \in {[IdleLayout EXCEPT !.pc = "banner", !.banner = b, !.title = t,
                                       !.titleText = w] :
                      b \in LayoutBanners, t \in CustomTitles, w \in CustomTitleTexts}
    /\ catalog = templates
    /\ listing = None
    /\ gradient = NoGradient
    /\ sweeper = NoSweeper
    /\ download = NoDownload

CustomTitleNext == LayoutBanner \/ LayoutCategory \/ LayoutTitle

CustomTitleSpec == CustomTitleInit /\ [][CustomTitleNext]_vars

\* drawBanner alone, called with any modelled banner on any modelled canvas.
BannerInit ==
    /\ title = IdleTitle
    /\ calls = [c \in Calls |-> NoCall]
    /\ files = {}
    /\ now = 0
    /\ color = NoColor
    /\ layout \in {[IdleLayout EXCEPT !.pc = "banner", !.banner = b, !.canvas = k] :
                      b \in BannerConfigs, k \in BannerCanvases}
    /\ catalog = templates
    /\ listing = None
    /\ gradient = NoGradient
    /\ sweeper = NoSweeper
    /\ download = NoDownload

BannerNext == LayoutBanner

BannerSpec == BannerInit /\ [][BannerNext]_vars

\* The server from its start: one request, the clock in minutes, the sweeps.
CleanupInit ==
    /\ title = IdleTitle
    /\ calls = [c \in Calls |-> NoCall]
    /\ files \in {{FoundFile(GitKeep, -40)} \cup found : found \in SUBSET Leftovers}
    /\ now = 0
    /\ color = NoColor
    /\ layout = IdleLayout
    /\ catalog = templates
    /\ listing = None
    /\ gradient = NoGradient
    /\ sweeper \in {[NoSweeper EXCEPT !.config = CleanupConfig(env)] : env \in Envs}
    /\ download = NoDownload

CleanupNext ==
    \/ Startup
    \/ Sweep
    \/ Elapse
    \/ \E body \in CleanupBodies : sweeper.started /\ PostGenerateImage(1, body)
    \/ AssetLoaded(1)

CleanupSpec == CleanupInit /\ [][CleanupNext]_vars

\* ------------------------------------------------------ title fit: claims
\* The nominal size and the floor of the template whose title is being drawn,
\* read from the catalog.
Nominal == templates[title.templateId].config[1].title.font.px[1]

\* size >= max(0.5 * nominal, 30)
AtLeastFloor(size) == 2 * size >= Nominal /\ size >= 30

AtFloor(size) == AtLeastFloor(size) /\ (2 * size = Nominal \/ size = 30)

NonIncreasing(sizes) == \A i \in 1..(Len(sizes) - 1) : sizes[i] >= sizes[i + 1]

FinalSize == FontPx(title.fit.currentFont)

Returned == title.pc = "returned" /\ Truthy(title.text)

\* The line count of the greedy wrap at the template's nominal size.
NaiveLineCount ==
    Len(wrapText(templates[title.templateId].config[1].title.font, title.text,
                 TitleMaxWidth(TitleCanvas, TitleCfg, TitleBounds)))

\* C1: for every catalog template and every title, the font-fit loop of
\* drawTitle terminates, the sizes it tries never increase, and every line is
\* drawn with a size >= max(0.5 * nominal, 30). Termination is the decreasing
\* variant: every pass of the loop either leaves it or lowers the font size,
\* which stays at or above the floor, so only finitely many passes exist.
C1_FitTerminatesAboveFloor ==
    /\ [](NonIncreasing(title.fit.tried))
    /\ [](Returned =>
            /\ AtLeastFloor(FinalSize)
            /\ \A i \in 1..Len(title.drawn) : FontPx(title.drawn[i].font) = FinalSize)
    /\ [][title.pc = "loop" =>
            \/ title'.pc = "returned"
            \/ title'.fit.exited
            \/ /\ title'.fit.currentFontSize < title.fit.currentFontSize
               /\ AtLeastFloor(title'.fit.currentFontSize)]_vars

\* A title that is reduced all the way: several sizes tried, drawn at the floor.
C1_Witness ==
    /\ Returned
    /\ Len(title.fit.tried) >= 3
    /\ AtFloor(FinalSize)
    /\ Len(title.drawn) >= 1

\* C2 as stated: a title of 5 or more lines at nominal size is drawn with a
\* smaller font and in at most 4 lines.
C2_Original ==
    (Returned /\ NaiveLineCount >= 5) =>
        (FinalSize < Nominal /\ Len(title.drawn) <= 4)

\* C2 amended: such a title is drawn with a font smaller than nominal, and in
\* at most 4 lines unless the font reached the floor, where whatever wrapping
\* results is drawn.
C2_ReducedAndFourLinesAboveFloor ==
    (Returned /\ NaiveLineCount >= 5) =>
        /\ FinalSize < Nominal
        /\ AtLeastFloor(FinalSize)
        /\ (~AtFloor(FinalSize) => Len(title.drawn) <= 4)

\* Five lines at nominal size, drawn in fewer lines at a size above the floor.
C2_Witness ==
    /\ Returned
    /\ NaiveLineCount >= 5
    /\ FinalSize < Nominal
    /\ ~AtFloor(FinalSize)
    /\ Len(title.drawn) \in 1..4

\* The floor as a number, for the iteration bounds.
Floor == IF Nominal >= 60 THEN Nominal \div 2 ELSE 30

\* C3 as stated: the wrap attempts number at most (nominal - floor)/4 + 1.
C3_Original == 4 * (Len(title.fit.tried) - 1) <= Nominal - Floor

\* C3 amended: the wrap attempts number at most ceil((nominal - floor)/4) + 1:
\* when nominal - floor is no multiple of 4 (nominal 52, floor 30) the size
\* clamped to the floor is tried as well.
C3_AttemptsAtMostCeiling ==
    Len(title.fit.tried) - 1 <= (Nominal - Floor + 3) \div 4

\* The bound is met: Modern Dark (52) tries 52, 48, ..., 32 and then 30.
C3_Witness ==
    /\ Returned
    /\ Nominal = 52
    /\ Len(title.fit.tried) = 7
    /\ title.fit.tried[7] = 30

\* The non-empty pieces of a text, in order.
RECURSIVE NonEmptyWords(_)
NonEmptyWords(words) ==
    IF words = <<>> THEN <<>>
    ELSE IF Head(words) = 0 THEN NonEmptyWords(Tail(words))
    ELSE <<Head(words)>> \o NonEmptyWords(Tail(words))

RECURSIVE Flatten(_)
Flatten(lines) == IF lines = <<>> THEN <<>> ELSE Head(lines) \o Flatten(Tail(lines))

\* The size of the font the current lines were wrapped with.
WrappedAt == title.fit.tried[Len(title.fit.tried)]

\* C4: every line wrapText returns is no wider than the wrap width or is a
\* single word, and the lines hold the words of the text whole and in order.
C4_LinesFitOrSingleWord ==
    title.fit.tried # <<>> =>
        /\ \A i \in 1..Len(title.fit.lines) :
              \/ TextLen(title.fit.lines[i]) * WrappedAt
                    <= 2 * TitleMaxWidth(TitleCanvas, TitleCfg, TitleBounds)
              \/ Len(title.fit.lines[i]) = 1
        /\ NonEmptyWords(Flatten(title.fit.lines)) = NonEmptyWords(title.text)

\* A wrap that yields an over-wide single word next to a line of several words.
C4_Witness ==
    /\ title.fit.tried # <<>>
    /\ \E i \in 1..Len(title.fit.lines) :
          /\ Len(title.fit.lines[i]) = 1
          /\ TextLen(title.fit.lines[i]) * WrappedAt
                > 2 * TitleMaxWidth(TitleCanvas, TitleCfg, TitleBounds)
    /\ \E i \in 1..Len(title.fit.lines) :
          Len(NonEmptyWords(title.fit.lines[i])) >= 2

\* ------------------------------------------------------- pipeline: claims
\* The handler passed the request on to generateImage.
Rendering(c) == calls[c].stages # <<>>

Responded(c) == calls[c].pc = "responded" /\ Rendering(c)

Succeeded(c) == Responded(c) /\ calls[c].res[1].status = 200

RequestedTemplate(c) == OrElse(calls[c].body.templateId, "classic")

NoUserBackground(c) ==
    ~IsDefined(calls[c].body.bgImageBase64) /\ ~IsDefined(calls[c].body.bgImageUrl)

AllStages ==
    <<"template", "background", "decorations", "banner", "category", "title",
      "subtitle", "encode", "write">>

AllLayers == <<"background", "decorations", "banner", "category", "title", "subtitle">>

\* What a render of the request with the classic template draws.
ClassicCanvas(body) ==
    <<[stage |-> "background", drawn |-> "template gradient"]>>
        \o DrawnAfterBackground(classic.config[1], body)

\* C5: template resolution never errors: a request whose templateId is absent
\* or is no id of the catalog is rendered with the classic template, and
\* succeeds.
C5_Original ==
    \A c \in Calls :
        (Responded(c) /\ RequestedTemplate(c) \notin TemplateIds /\ NoUserBackground(c)) =>
            /\ calls[c].res[1].status = 200
            /\ calls[c].canvas = ClassicCanvas(calls[c].body)

\* C6: the filenames of any two calls that complete differ, so that each
\* call's file is still the one it wrote.
C6_Original ==
    \A c1, c2 \in Calls :
        (c1 # c2 /\ Succeeded(c1) /\ Succeeded(c2)) =>
            /\ calls[c1].res[1].filename # calls[c2].res[1].filename
            /\ \E f \in files : f.name = calls[c1].res[1].filename[1] /\ f.by = c1

\* The user-supplied background of the request cannot be loaded: undecodable
\* inline data, or (no inline data) a URL that ends in a connection error, a
\* non-success status, a broken body or a body that is no image.
FailingPaths == {"/page", "/missing", "/gone", "/noloc", "/trunc"}

UserBackgroundFails(body) ==
    IF IsDefined(body.bgImageBase64) THEN body.bgImageBase64[1] = "garbage"
    ELSE /\ IsDefined(body.bgImageUrl)
         /\ \/ body.bgImageUrl[1].host = "down.example"
            \/ body.bgImageUrl[1].path \in FailingPaths

FilesBy(c) == {f \in files : f.by = c}

\* C7: when the user-supplied background fails to load, generateImage rejects,
\* no later stage runs and no file is written; and a call ends with a complete
\* written composite or with an error, never with a partial image.
C7_UserBackgroundFailureIsFatal ==
    \A c \in Calls :
        /\ \A f \in files : f.layers = AllLayers
        /\ (Responded(c) /\ UserBackgroundFails(calls[c].body)) =>
              /\ calls[c].res[1].status = 500
              /\ calls[c].stages = <<"template">>
              /\ calls[c].canvas = <<>>
              /\ FilesBy(c) = {}
        /\ Responded(c) =>
              \/ /\ calls[c].res[1].status = 200
                 /\ calls[c].stages = AllStages
                 /\ \E f \in FilesBy(c) : f.name = calls[c].res[1].filename[1]
              \/ /\ calls[c].res[1].status = 500
                 /\ calls[c].res[1].filename = None
                 /\ FilesBy(c) = {}

\* A request whose URL answers 404 was rejected after the background stage began.
C7_Witness ==
    \E c \in Calls :
        /\ Responded(c)
        /\ calls[c].body.bgImageUrl = Some(Url("a.example", "/missing"))
        /\ ~IsDefined(calls[c].body.bgImageBase64)
        /\ calls[c].fetch = "rejected"
        /\ calls[c].res[1].status = 500

\* C8: when the request supplies no background and the template's bundled
\* image fails to load, the fallback gradient is painted and the render goes
\* through every later stage to a successful result.
C8_AssetFailureIsRecovered ==
    \A c \in Calls :
        (NoUserBackground(c) /\ calls[c].assetLoaded = Some(FALSE)) =>
            /\ Succeeded(c)
            /\ calls[c].canvas[1] = [stage |-> "background", drawn |-> "fallback gradient"]
            /\ StageNames(calls[c].canvas) = AllLayers
            /\ calls[c].stages = AllStages
            /\ \E f \in FilesBy(c) : f.name = calls[c].res[1].filename[1]

C8_Witness ==
    \E c \in Calls :
        /\ calls[c].assetLoaded = Some(FALSE)
        /\ RequestedTemplate(c) = "prayerCover"
        /\ Succeeded(c)

UserBackgrounds == {"user inline", "user url"}

\* C9: when the request carries bgImageBase64 or bgImageUrl the template
\* background is never painted (nor its image loaded); inline data, when
\* present, is the background used and no URL is fetched; a URL is fetched
\* only when there is no inline data.
C9_BackgroundPrecedence ==
    \A c \in Calls :
        /\ (Rendering(c) /\ ~NoUserBackground(c)) =>
              /\ calls[c].pc # "loadAsset"
              /\ calls[c].assetLoaded = None
              /\ calls[c].canvas # <<>> => calls[c].canvas[1].drawn \in UserBackgrounds
        /\ (Rendering(c) /\ IsDefined(calls[c].body.bgImageBase64)) =>
              /\ calls[c].requests = <<>>
              /\ calls[c].canvas # <<>> => calls[c].canvas[1].drawn = "user inline"
        /\ calls[c].requests # <<>> =>
              /\ ~IsDefined(calls[c].body.bgImageBase64)
              /\ calls[c].requests[1] = calls[c].body.bgImageUrl[1]

\* A request carrying both was rendered over its inline image.
C9_Witness ==
    \E c \in Calls :
        /\ Succeeded(c)
        /\ IsDefined(calls[c].body.bgImageBase64)
        /\ IsDefined(calls[c].body.bgImageUrl)
        /\ RequestedTemplate(c) = "prayerCover"
        /\ calls[c].canvas[1].drawn = "user inline"

\* The fetch of the call has settled.
Settled(c) == calls[c].fetch \in {"resolved", "rejected"}

LastRequest(c) == calls[c].requests[Len(calls[c].requests)]

\* The response makes the fetch of its URL resolve.
Resolves(r) == r.fault = "none" /\ r.status = 200

\* C10: on a 3xx response with a Location the request is re-issued against the
\* Location resolved against the current URL; the fetch settles as the
\* follow-up does; and a terminal response that is not 2xx rejects it.
C10_RedirectsFollowed ==
    \A c \in Calls :
        /\ \A i \in 1..(Len(calls[c].requests) - 1) :
              LET r == Web(calls[c].requests[i])
              IN /\ r.status \in 300..399 /\ IsDefined(r.location)
                 /\ calls[c].requests[i + 1].path = r.location[1].path
                 /\ calls[c].requests[i + 1].host =
                        IF r.location[1].absolute THEN r.location[1].host
                        ELSE calls[c].requests[i].host
        /\ Settled(c) =>
              LET r == Web(LastRequest(c))
              IN /\ ~(r.fault = "none" /\ r.status \in 300..399 /\ IsDefined(r.location))
                 /\ (calls[c].fetch = "resolved") = Resolves(r)
                 /\ calls[c].fetch = "resolved" => calls[c].buffer = Some(r.body)
                 /\ (r.fault = "none" /\ r.status \notin 200..299) =>
                        calls[c].fetch = "rejected"

\* A relative redirect was followed on the same host and ended in the image.
C10_Witness ==
    \E c \in Calls :
        /\ calls[c].requests = <<Url("a.example", "/moved"), Url("a.example", "/img.png")>>
        /\ calls[c].fetch = "resolved"
        /\ calls[c].buffer = Some("image")

\* -------------------------------------------------- redirect chains: claims
\* The fetch of the call began on the redirect chain.
OnChain(c) == calls[c].requests # <<>> /\ calls[c].requests[1].host = "chain.example"

\* The redirects between the first URL of the call and the image of the chain.
ChainLength(c) == ChainHops(calls[c].requests[1].path)

InCycle(c) == calls[c].requests # <<>> /\ calls[c].requests[1] = Url("a.example", "/loop")

\* C11: redirect following has no hop bound. A chain of n redirects ending in
\* a 200 response is followed hop by hop and resolves with the final body, for
\* every n; a fetch is never rejected on a 3xx response that carries a
\* Location, however many redirects came before; and a redirect cycle is
\* followed without the fetch ever settling.
C11_RedirectsUnbounded ==
    \A c \in Calls :
        /\ calls[c].fetch = "rejected" =>
              LET r == Web(LastRequest(c))
              IN ~(r.fault = "none" /\ r.status \in 300..399 /\ IsDefined(r.location))
        /\ OnChain(c) =>
              /\ calls[c].fetch # "rejected"
              /\ Len(calls[c].requests) <= ChainLength(c) + 1
              /\ \A i \in 1..Len(calls[c].requests) :
                    calls[c].requests[i] =
                        Url("chain.example", ChainPaths[ChainLength(c) - i + 2])
              /\ calls[c].fetch = "pending" => ENABLED HttpResponse(c)
              /\ calls[c].fetch = "resolved" =>
                    /\ Len(calls[c].requests) = ChainLength(c) + 1
                    /\ calls[c].buffer = Some("image")
        /\ InCycle(c) =>
              /\ calls[c].fetch = "pending"
              /\ calls[c].pc = "fetching"
              /\ \A i \in 1..Len(calls[c].requests) :
                    calls[c].requests[i] = Url("a.example", "/loop")

\* The longest modelled chain was followed to its image.
C11_Witness ==
    \E c \in Calls :
        /\ OnChain(c)
        /\ ChainLength(c) = MaxHops
        /\ Len(calls[c].requests) = MaxHops + 1
        /\ calls[c].fetch = "resolved"
        /\ calls[c].buffer = Some("image")

\* --------------------------------------------------------- colors: claims
Lower(ch) ==
    IF \E i \in 1..16 : ch = UpperHexChars[i]
    THEN HexChars[CHOOSE i \in 1..16 : ch = UpperHexChars[i]]
    ELSE ch

\* A channel value written as two lower-case hex digits.
ToHex(n) == <<HexChars[(n \div 16) + 1], HexChars[(n % 16) + 1]>>

\* The string has the form #rrggbb, the # optional, in either case.
IsSixDigitColor(hex) ==
    \/ Len(hex) = 6 /\ \A i \in 1..6 : hex[i] \in AllHexChars
    \/ Len(hex) = 7 /\ hex[1] = "#" /\ \A i \in 2..7 : hex[i] \in AllHexChars

\* The six digits of such a string, in lower case.
LowerDigits(hex) ==
    LET d == IF Len(hex) = 7 THEN Tail(hex) ELSE hex
    IN [i \in 1..6 |-> Lower(d[i])]

\* C12: for a string of the form #rrggbb (either case, # optional) hexToRgb
\* returns the three channels as integers in 0..255, and writing them back as
\* hex gives the digits of the input; for every other string it returns
\* (255, 255, 255).
C12_HexToRgbRoundTrips ==
    IsDefined(color.rgb) =>
        LET rgb == color.rgb[1]
        IN IF IsSixDigitColor(color.hex)
           THEN /\ rgb.r \in 0..255 /\ rgb.g \in 0..255 /\ rgb.b \in 0..255
                /\ ToHex(rgb.r) \o ToHex(rgb.g) \o ToHex(rgb.b) = LowerDigits(color.hex)
           ELSE rgb = Rgb(255, 255, 255)

\* An upper-case color without # was converted to channels that are not white.
C12_Witness ==
    /\ color.hex = <<"F", "F", "9", "9", "0", "0">>
    /\ color.rgb = Some(Rgb(255, 153, 0))

\* ------------------------------------------------------ overrides: claims
\* The layer a stage of the call painted.
Layer(c, stage) ==
    calls[c].canvas[CHOOSE i \in 1..Len(calls[c].canvas) : calls[c].canvas[i].stage = stage]

\* The config of the template the call renders.
ConfigOf(c) == templates[calls[c].templateId].config[1]

\* The request carries a color for the field: a non-empty string.
BannerColorPresent(body) == IsDefined(body.bannerColor) /\ body.bannerColor[1] # <<>>

\* The request carries an opacity: the field is there and is not null.
OpacityPresent(body) == IsDefined(body.bannerOpacity) /\ body.bannerOpacity[1].kind # "null"

\* The four resolutions, for a call that rendered: override when present, else
\* the template default (0.85 for an opacity without one).
OverridesResolve(c) ==
    LET body == calls[c].body
        config == ConfigOf(c)
    IN /\ IsDefined(config.banner) =>
             LET fill == Layer(c, "banner").fill[1]
             IN /\ fill.color = IF BannerColorPresent(body) THEN body.bannerColor[1]
                                ELSE config.banner[1].defaultColor
                /\ fill.rgb = hexToRgb(fill.color)
                /\ fill.opacity = IF OpacityPresent(body)
                                  THEN Number(body.bannerOpacity[1].pct)
                                  ELSE Number(OrElse(config.banner[1].defaultOpacity, 85))
       /\ ~IsDefined(config.banner) => Layer(c, "banner").fill = None
       /\ IsDefined(Layer(c, "category").fill) =>
             Layer(c, "category").fill[1] =
                 IF IsDefined(body.categoryColor) /\ body.categoryColor[1] # ""
                 THEN body.categoryColor[1] ELSE config.category.defaultColor
       /\ Layer(c, "title").fill[1] =
             IF IsDefined(body.titleColor) /\ body.titleColor[1] # ""
             THEN body.titleColor[1] ELSE config.title.defaultColor

\* C13: banner color, banner opacity, category color and title color each
\* resolve to the request's override when it is present and to the template
\* default when it is absent (an absent opacity default being 0.85), and an
\* opacity override of 0 is honoured.
C13_Original == \A c \in Calls : Succeeded(c) => OverridesResolve(c)

\* ------------------------------------------------- title fit: acceptance
\* 0.8 * banner height, or 0.5 * canvas height for a template without banner,
\* in tenths of a pixel, read from the catalog.
HeightLimit10 ==
    LET config == templates[title.templateId].config[1]
    IN IF IsDefined(config.banner) THEN 8 * config.banner[1].height
       ELSE 5 * config.canvas.height

\* n lines at the given size are at most 4 and, with the line height scaled
\* to that size, no higher than the limit:
\* n * (nominal line height * size / nominal) <= limit.
Accepted(n, size) ==
    /\ n <= 4
    /\ n * TitleCfg.lineHeight[1] * size * 10 <= HeightLimit10 * Nominal

\* The number of lines the title wraps to at a size.
LinesAt(size) ==
    Len(wrapText([TitleCfg.font EXCEPT !.px = Some(size)], title.text,
                 TitleMaxWidth(TitleCanvas, TitleCfg, TitleBounds)))

\* C14: the sizes above the floor are tried in the order nominal, nominal - 4,
\* nominal - 8, ...; the loop stops at the first of them at which the wrapped
\* lines are at most 4 and lines * line height is within 0.8 * banner height
\* (0.5 * canvas height without banner); so a title drawn at a size above the
\* floor is drawn in lines that meet both conditions.
C14_FirstFittingSizeAccepted ==
    /\ \A i \in 1..Len(title.fit.tried) :
          /\ ~AtFloor(title.fit.tried[i]) => title.fit.tried[i] = Nominal - 4 * (i - 1)
          /\ i < Len(title.fit.tried) =>
                ~Accepted(LinesAt(title.fit.tried[i]), title.fit.tried[i])
    /\ (Returned /\ ~AtFloor(FinalSize)) =>
          /\ title.fit.exited
          /\ Len(title.drawn) = LinesAt(FinalSize)
          /\ Accepted(Len(title.drawn), FinalSize)
          /\ \A i \in 1..Len(title.drawn) : title.drawn[i].line = title.fit.lines[i]

\* A title of four lines that is too high at the nominal size was accepted at
\* a smaller size above the floor.
C14_Witness ==
    /\ Returned
    /\ LinesAt(Nominal) <= 4
    /\ ~Accepted(LinesAt(Nominal), Nominal)
    /\ FinalSize < Nominal
    /\ ~AtFloor(FinalSize)
    /\ Len(title.drawn) >= 2

\* ---------------------------------------------------- title fit: the steps
\* The line height of the loop is the nominal line height scaled to the size
\* the loop is at: lineHeight = nominal line height * (size / nominal).
LineHeightScaled ==
    title.pc \in {"loop", "returned"} /\ Truthy(title.text) =>
        title.fit.lineHeight.num * Nominal =
            TitleCfg.lineHeight[1] * title.fit.currentFontSize * title.fit.lineHeight.den

\* Line i is drawn i * (nominal line height * final size / nominal) below the
\* first line.
SpacingScaled ==
    \A i \in 1..Len(title.drawn) :
        title.drawn[i].dy.num * Nominal =
            (i - 1) * TitleCfg.lineHeight[1] * FinalSize * title.drawn[i].dy.den

\* The size the loop goes on with after a rejection is the rejected size - 4.
NextSizeIsFourLower ==
    (title.pc = "loop" /\ ~title.fit.exited /\ title.fit.tried # <<>>) =>
        title.fit.currentFontSize = title.fit.tried[Len(title.fit.tried)] - 4

\* C15 as stated: every rejected iteration lowers the size by exactly 4, the
\* line height is scaled with the size, and the lines are spaced by it.
C15_Original ==
    /\ \A i \in 1..(Len(title.fit.tried) - 1) :
          title.fit.tried[i + 1] = title.fit.tried[i] - 4
    /\ NextSizeIsFourLower
    /\ LineHeightScaled
    /\ SpacingScaled

\* C15 amended: a rejected iteration lowers the size by 4 but not below the
\* floor: the last step is smaller than 4 when the floor is less than 4 below
\* the rejected size (32 to 30 for nominal 52). The line height is scaled with
\* the new size, and the lines are spaced by the line height of the final size.
C15_StepOfFourClampedToFloor ==
    /\ \A i \in 1..(Len(title.fit.tried) - 1) :
          \/ title.fit.tried[i + 1] = title.fit.tried[i] - 4
          \/ /\ title.fit.tried[i + 1] = Floor
             /\ title.fit.tried[i] - title.fit.tried[i + 1] \in 1..3
             /\ i + 1 = Len(title.fit.tried)
    /\ NextSizeIsFourLower
    /\ LineHeightScaled
    /\ SpacingScaled

\* Modern Dark was reduced from 32 to its floor 30 and drawn in several lines.
C15_Witness ==
    /\ Returned
    /\ Len(title.fit.tried) >= 2
    /\ title.fit.tried[Len(title.fit.tried) - 1] = 32
    /\ FinalSize = 30
    /\ Len(title.drawn) >= 2

\* ------------------------------------------------------- layout: claims
\* The title stage of the layout run has returned.
LayoutDone == layout.pc = "done"

\* The wrap width of a catalog template, from its own banner.
CatalogWrapWidth(id) ==
    LET config == templates[id].config[1]
    IN TitleMaxWidth(config.canvas, config.title, drawBanner(config.canvas, config.banner))

\* C16: the wrap width of the title is the configured maxWidth when that is
\* >= 0, bannerBounds.width + maxWidth when it is negative, and canvas width
\* - 200 otherwise, a negative maxWidth without banner bounds included; it is
\* positive for every catalog template.
C16_Original ==
    /\ LayoutDone =>
          layout.maxWidth[1] =
              IF IsDefined(layout.title.maxWidth) /\ layout.title.maxWidth[1] >= 0
              THEN layout.title.maxWidth[1]
              ELSE IF IsDefined(layout.title.maxWidth) /\ IsDefined(layout.bannerBounds)
              THEN layout.bannerBounds[1].width + layout.title.maxWidth[1]
              ELSE layout.canvas.width - 200
    /\ \A id \in TemplateIds : CatalogWrapWidth(id) > 0

\* The category stage of the layout run drew its text.
CategoryDrawn == layout.pc \in {"title", "done"} /\ Truthy(layout.categoryText)

\* C17: without a banner the banner stage returns no bounds, and the category
\* and title stages still resolve a defined x and a defined y for what they
\* draw, whether or not their config gives explicit coordinates.
C17_Original ==
    layout.banner = None =>
        /\ layout.bannerBounds = None
        /\ CategoryDrawn => IsDefined(layout.categoryX) /\ IsDefined(layout.categoryDrawnY)
        /\ LayoutDone =>
              /\ layout.drawn # <<>>
              /\ \A i \in 1..Len(layout.drawn) :
                    IsDefined(layout.drawn[i].x) /\ IsDefined(layout.drawn[i].startY)

\* The x the claim gives the title; no statement without bounds and alignment.
ExpectedTitleX(x) ==
    IF IsDefined(layout.title.x) THEN x = layout.title.x
    ELSE IF OrElse(layout.title.align, "center") = "center"
    THEN x = Some(layout.canvas.width \div 2)
    ELSE IsDefined(layout.bannerBounds) => x = Some(layout.bannerBounds[1].x + 40)

\* The y the claim gives the first line of the title.
ExpectedTitleY(y) ==
    IF IsDefined(layout.title.y) THEN y = layout.title.y
    ELSE IF IsDefined(layout.categoryY) /\ IsDefined(layout.title.offsetY)
    THEN y = Some(layout.categoryY[1] + layout.title.offsetY[1])
    ELSE IsDefined(layout.bannerBounds) =>
            y = Some(layout.bannerBounds[1].y + layout.bannerBounds[1].height \div 2)

\* The category stage returns the y it drew at, and none for an empty text.
CategoryReturnsItsY ==
    layout.pc \in {"title", "done"} =>
        layout.categoryY = IF Truthy(layout.categoryText) THEN layout.categoryDrawnY ELSE None

\* Line i (from 0) is drawn i * (line height scaled to the final size) lower.
LinesSpaced ==
    \A i \in 1..Len(layout.drawn) :
        layout.drawn[i].dy.num * layout.title.font.px[1] =
            (i - 1) * layout.title.lineHeight[1] * FontPx(layout.drawn[i].font)
                * layout.drawn[i].dy.den

\* C18: the title's x is its explicit x, else canvas width / 2 for center
\* alignment, else bannerBounds.x + 40; its y is its explicit y, else
\* categoryY + offsetY when the category stage returned a y and the title has
\* an offset, else the banner's vertical midpoint; line i is drawn i line
\* heights lower; and with an empty category text no y is returned.
C18_Original ==
    /\ CategoryReturnsItsY
    /\ LinesSpaced
    /\ LayoutDone =>
          /\ layout.drawn # <<>>
          /\ \A i \in 1..Len(layout.drawn) :
                /\ ExpectedTitleX(layout.drawn[i].x)
                /\ ExpectedTitleY(layout.drawn[i].startY)

\* ------------------------------------------------- order of stages: claims
IsPrefix(p, q) == Len(p) <= Len(q) /\ \A i \in 1..Len(p) : p[i] = q[i]

\* The stages of a call up to the one painting the layers on its canvas.
DrawingStages == <<"template">> \o AllLayers

\* C19: within one call the stages run once each in the order template
\* resolution, background, decorations, banner, category, title, subtitle,
\* encode, file write; the file is written only after every drawing stage;
\* and after an error in a stage no later stage runs.
C19_StagesInOrder ==
    /\ [](\A c \in Calls :
            /\ IsPrefix(calls[c].stages, AllStages)
            /\ IsPrefix(StageNames(calls[c].canvas), AllLayers)
            /\ FilesBy(c) # {} =>
                  /\ calls[c].stages = AllStages
                  /\ StageNames(calls[c].canvas) = AllLayers
                  /\ \A f \in FilesBy(c) : f.layers = AllLayers
            /\ (Responded(c) /\ calls[c].res[1].status # 200) =>
                  /\ calls[c].stages # AllStages
                  /\ calls[c].stages = <<"template">> \o StageNames(calls[c].canvas)
                  /\ FilesBy(c) = {})
    /\ [][\A c \in Calls :
            /\ IsPrefix(calls[c].stages, calls'[c].stages)
            /\ (Responded(c) /\ calls[c].res[1].status # 200) =>
                  calls'[c].stages = calls[c].stages]_vars

\* A render over a fetched background went through every stage to its file.
C19_Witness ==
    \E c \in Calls :
        /\ Succeeded(c)
        /\ calls[c].fetch = "resolved"
        /\ calls[c].stages = AllStages
        /\ StageNames(calls[c].canvas) = AllLayers
        /\ FilesBy(c) # {}

\* ------------------------------------------------------- catalog: claims
\* What a render of the request draws from the catalog as it was loaded.
LoadTimeCanvas(templateId, body, background) ==
    <<[stage |-> "background", drawn |-> background]>>
        \o DrawnAfterBackground(templates[templateId].config[1], body)

\* C20: the catalog is read-only: after any interleaving of renders (with
\* and without overrides) and template listings every template equals its
\* value at load time, the listing is the one of the loaded catalog, and what
\* a render draws depends on its own request and the loaded catalog only, so
\* an earlier render with overrides does not change a later render without.
C20_CatalogReadOnly ==
    /\ catalog = templates
    /\ \A id \in TemplateIds : catalog[id] = templates[id]
    /\ IsDefined(listing) =>
          \A i \in 1..Len(TemplateOrder) :
              /\ listing[1][i].id = templates[TemplateOrder[i]].id
              /\ listing[1][i].name = templates[TemplateOrder[i]].name
              /\ listing[1][i].description = templates[TemplateOrder[i]].description
              /\ listing[1][i].preview = templates[TemplateOrder[i]].preview
    /\ \A c \in Calls :
          Succeeded(c) =>
              calls[c].canvas =
                  LoadTimeCanvas(RequestedTemplate(c), calls[c].body, calls[c].canvas[1].drawn)

\* A render with overrides and a render of the same template without have
\* both completed, after the templates were listed.
C20_Witness ==
    /\ IsDefined(listing)
    /\ \E c1, c2 \in Calls :
          /\ c1 # c2
          /\ Succeeded(c1) /\ Succeeded(c2)
          /\ RequestedTemplate(c1) = RequestedTemplate(c2)
          /\ IsDefined(calls[c1].body.titleColor)
          /\ ~IsDefined(calls[c2].body.titleColor)
          /\ Layer(c1, "title").fill = Some("#445566")
          /\ Layer(c2, "title").fill = Some(templates[RequestedTemplate(c2)].config[1].title.defaultColor)

\* ------------------------------------------------------- handler: claims
\* The handler has answered the request of the connection.
Answered(c) == calls[c].pc = "responded"

\* The request has no mainText, or one that is empty or only spaces.
TitleMissingOrBlank(body) ==
    ~IsDefined(body.mainText) \/ \A i \in 1..Len(body.mainText[1]) : body.mainText[1][i] = 0

\* C21: a request whose mainText is missing, empty or only whitespace is
\* answered 400 "Main title text is required"; generateImage is not invoked
\* (no stage runs, nothing is fetched or loaded) and no file is written.
C21_BlankTitleIsRefused ==
    \A c \in Calls :
        /\ (calls[c].pc # "idle" /\ TitleMissingOrBlank(calls[c].body)) =>
              /\ Answered(c)
              /\ calls[c].res = Some(Failure(400, "Main title text is required"))
              /\ calls[c].stages = <<>>
              /\ calls[c].canvas = <<>>
              /\ calls[c].requests = <<>>
              /\ calls[c].assetLoaded = None
              /\ FilesBy(c) = {}
        /\ (Answered(c) /\ calls[c].res[1].status = 400) => TitleMissingOrBlank(calls[c].body)

\* A request whose title is a single space, with a background URL, was refused.
C21_Witness ==
    \E c \in Calls :
        /\ Answered(c)
        /\ calls[c].body.mainText = Some(<<0, 0>>)
        /\ IsDefined(calls[c].body.bgImageUrl)
        /\ calls[c].res[1].status = 400

\* The request that carries nothing but the title "Hello World".
OnlyHelloWorld == RequestBody(None, None, Some(HelloWorld), None, None)

\* The same request with the two defaults written out.
HelloWorldSpelledOut == RequestBody(Some("classic"), Some(<<8>>), Some(HelloWorld), None, None)

\* C22: the request {mainText: "Hello World"} is rendered with the classic
\* template and the category text "CATEGORY" (8 characters), succeeds, yields
\* an image of the classic canvas size 1200 x 630 and a filename of the form
\* featured-image-<digits>.webp.
C22_DefaultsRender ==
    \A c \in Calls :
        (Answered(c) /\ calls[c].body = OnlyHelloWorld) =>
            /\ calls[c].res[1].status = 200 /\ calls[c].res[1].success
            /\ calls[c].templateId = "classic"
            /\ Layer(c, "category").text = <<8>>
            /\ calls[c].canvas =
                   <<[stage |-> "background", drawn |-> "template gradient"]>>
                       \o DrawnAfterBackground(classic.config[1], HelloWorldSpelledOut)
            /\ LET name == calls[c].res[1].filename[1]
               IN /\ name.prefix = "featured-image-"
                  /\ name.id \in Nat
                  /\ name.ext = ".webp"
                  /\ \E f \in FilesBy(c) :
                        f.name = name /\ f.width = 1200 /\ f.height = 630

\* The request was rendered after the clock had advanced.
C22_Witness ==
    \E c \in Calls :
        /\ Answered(c)
        /\ calls[c].body = OnlyHelloWorld
        /\ calls[c].res[1].filename = Some(Filename(1))
        /\ Len(Layer(c, "title").drawn) = 1

\* ------------------------------------------------------- listing: claims
\* The six templates in the order the catalog declares them.
SixTemplates == <<"classic", "modernDark", "minimal", "vibrant", "editorial", "prayerCover">>

\* C23: getTemplateList returns one entry per catalog template, six in
\* catalog order; an entry has the fields id, name, description and preview
\* and no others (no render config); and its id is the key under which
\* getTemplate finds the template the entry describes.
C23_ListingIsTheCatalog ==
    IsDefined(listing) =>
        /\ Len(listing[1]) = 6
        /\ \A i \in 1..Len(listing[1]) :
              LET entry == listing[1][i]
              IN /\ DOMAIN entry = {"id", "name", "description", "preview"}
                 /\ entry.id = SixTemplates[i]
                 /\ getTemplate(entry.id).id = entry.id
                 /\ getTemplate(entry.id).name = entry.name
                 /\ getTemplate(entry.id).description = entry.description
                 /\ getTemplate(entry.id).preview = entry.preview
                 /\ DOMAIN entry.preview = {"bgGradient", "accentColor"}
                 /\ Len(entry.preview.bgGradient) = 2

\* The templates were listed while a render was waiting for its image.
C23_Witness ==
    /\ IsDefined(listing)
    /\ listing[1][6].name = "Prayer Cover"
    /\ \E c \in Calls : calls[c].pc = "loadAsset"

\* ------------------------------------------------------ gradient: claims
\* The coordinate is exactly the given number of half pixels.
Exactly(coordinate, half) == coordinate.half = half /\ coordinate.ulps = 0

\* The coordinate is the given number of half pixels, up to two ulps.
Nearly(coordinate, half) == coordinate.half = half /\ coordinate.ulps \in -2..2

\* The two coordinates are mirror images about the given number of half pixels.
Mirrored(a, b, half) == a.half + b.half = 2 * half /\ a.ulps + b.ulps = 0

Images == {f \in files : f.name # GitKeep}

Age(f) == now - f.mtime

\* No file of that name is in the directory.
Gone(name, fs) == \A f \in fs : f.name # name

C26_CleanupDeletesOnlyOldImages ==
    [][/\ \A f \in files :
             Gone(f.name, files') =>
                 /\ sweeper.config.enabled
                 /\ f.name # GitKeep
                 /\ Age(f) > sweeper.config.maxAgeMinutes
       /\ \A c \in Calls :
             (calls[c].pc # "responded" /\ calls'[c].pc = "responded"
                  /\ calls'[c].res[1].status = 200) =>
                 ~Gone(calls'[c].res[1].filename[1], files')]_vars

\* A rendered image exactly as old as the max age has survived a sweep at
\* that age, and .gitkeep is still there.
C26_Witness ==
    /\ sweeper.config.enabled
    /\ sweeper.swept > 1
    /\ \E f \in Images :
          /\ f.by = 1
          /\ Age(f) = sweeper.config.maxAgeMinutes
          /\ sweeper.due[1] > now
          /\ sweeper.due[1] - sweeper.config.intervalMinutes = now
    /\ ~Gone(GitKeep, files)

\* -------------------------------------------------------- banner: claims
\* C27: a centered banner's bounds are x = padding, y = (canvas height -
\* height) / 2, width = canvas width - 2 * padding, height = height; a left or
\* floating banner's are the configured x, y, width, height; in every variant
\* centerX = x + width / 2 and the filled rectangle is the returned bounds.
C27_BannerBounds ==
    (layout.pc # "banner" /\ IsDefined(layout.banner)
         /\ layout.banner[1].type \in {"centered", "left", "floating"}) =>
        LET b == layout.banner[1]
            canvas == layout.canvas
        IN /\ IsDefined(layout.bannerBounds)
           /\ IsDefined(layout.bannerRect)
           /\ LET bounds == layout.bannerBounds[1]
                  rect == layout.bannerRect[1]
              IN /\ b.type = "centered" =>
                       /\ bounds.x = b.padding
                       /\ 2 * bounds.y = canvas.height - b.height
                       /\ bounds.width = canvas.width - 2 * b.padding
                       /\ bounds.height = b.height
                 /\ b.type \in {"left", "floating"} =>
                       /\ bounds.x = b.x /\ bounds.y = b.y
                       /\ bounds.width = b.width /\ bounds.height = b.height
                 /\ 2 * bounds.centerX = 2 * bounds.x + bounds.width
                 /\ rect = [x |-> bounds.x, y |-> bounds.y,
                            width |-> bounds.width, height |-> bounds.height]

\* A floating banner off the centre of the canvas has been drawn.
C27_Witness ==
    /\ layout.pc = "category"
    /\ IsDefined(layout.banner)
    /\ layout.banner[1].type = "floating"
    /\ IsDefined(layout.bannerBounds)
    /\ layout.bannerBounds[1].centerX = 430
    /\ layout.canvas = Canvas1200x630

\* ------------------------------------------------------ responses: claims
\* The answer of a call has one of the three shapes of the handler.
AnswerShaped(c) ==
    LET res == calls[c].res[1]
    IN \/ /\ res.status = 400
          /\ TitleMissingOrBlank(calls[c].body)
          /\ ~res.success
       \/ /\ res.status = 200
          /\ res.success
          /\ IsDefined(res.filename)
          /\ IsDefined(res.downloadUrl)
          /\ res.downloadUrl[1].path = "/images/"
          /\ res.downloadUrl[1].filename = res.filename[1]
       \/ /\ res.status = 500
          /\ ~res.success
          /\ res.error # ""

\* C28 as stated: every request receives one response, 400 for a missing or
\* blank title, 200 with success, downloadUrl and filename, or 500 with the
\* error message, the downloadUrl ending with /images/<filename>. A request
\* that is not answered yet is one whose answer can still come: its fetch is
\* not following a cycle of redirects.
C28_Original ==
    \A c \in Calls :
        /\ Answered(c) => AnswerShaped(c)
        /\ TitleMissingOrBlank(calls[c].body) /\ calls[c].pc # "idle" => Answered(c)
        /\ ~Answered(c) => ~InCycle(c)

\* ------------------------------------------------- custom titles: claims
\* The non-empty words of the drawn lines, line after line.
RECURSIVE DrawnWords(_)
DrawnWords(drawn) ==
    IF drawn = <<>> THEN <<>>
    ELSE NonEmptyWords(Head(drawn).line) \o DrawnWords(Tail(drawn))

\* C29 as stated: for any title config, of the catalog or of a custom
\* template, and any title that is not blank, drawTitle draws at least one
\* line and the drawn lines hold every non-empty word of the title once, in
\* the original order.
C29_Original ==
    layout.pc = "done" =>
        /\ Len(layout.drawn) >= 1
        /\ DrawnWords(layout.drawn) = NonEmptyWords(layout.titleText)

\* ----------------------------------------------------- download: claims
\* The response fetchImageFromUrl follows with a new request.
Followed(url) == Web(url).fault = "none" /\ IsRedirect(Web(url))

\* C30: each request after the first is the one request that follows a
\* redirect (no URL is tried again); the promise resolves only on a terminal
\* 200 whose stream has ended, with the chunks concatenated in arrival order;
\* a 3xx without Location, another status than 200, a request error and a
\* stream error reject; and once the promise is settled it stays as it is and
\* no request is issued.
C30_FetchSettlesOnce ==
    /\ [](/\ \A i \in 1..(Len(download.requests) - 1) :
                /\ Followed(download.requests[i])
                /\ download.requests[i + 1] =
                       ResolveLocation(Web(download.requests[i]).location[1],
                                       download.requests[i])
          /\ IsDefined(download.promise) =>
                LET r == Web(CurrentUrl)
                    p == download.promise[1]
                IN /\ ~Followed(CurrentUrl)
                   /\ p.kind = "resolved" <=> (r.fault = "none" /\ r.status = 200)
                   /\ p.kind = "resolved" =>
                         /\ p.value = Bytes(r.body)
                         /\ download.arrived = Len(Bytes(r.body))
                         /\ \A k \in 1..Len(download.chunks) : download.chunks[k] # <<>>
                   /\ p.kind = "rejected" =>
                         p.message = IF r.fault = "request" THEN "Request error"
                                     ELSE IF r.status # 200 THEN "Failed to fetch image"
                                     ELSE "Stream error")
    /\ [][IsDefined(download.promise) => download' = download]_vars

\* After a redirect the image arrived in two chunks or more and the promise
\* resolved with its bytes.
C30_Witness ==
    /\ download.requests = <<Url("a.example", "/moved"), Url("a.example", "/img.png")>>
    /\ Len(download.chunks) >= 2
    /\ IsDefined(download.promise)
    /\ download.promise[1] = Resolved(Bytes("image"))

====
